---- MODULE Spec2Model ----
(***************************************************************************)
(* A model of the fire-behaviour engine of jsoulier/behave:                *)
(*   SurfaceInputs (src/src/behave/surfaceInputs.cpp), the staged inputs;  *)
(*   Surface       (src/src/behave/surface.cpp), the surface run;          *)
(*   Crown         (src/src/behave/crown.cpp), the crown-fire pipeline.    *)
(*                                                                         *)
(* Numbers.  The code computes in double; the model computes in integers   *)
(* with a fixed scale per quantity, stated where the quantity is defined:  *)
(*   moisture            percent                                           *)
(*   wind speed          tenths of a mile per hour                         *)
(*   wind direction      degrees                                           *)
(*   heights             hundredths of a foot                              *)
(*   canopy bulk density thousandths of lb/ft3                             *)
(* The unit-conversion library (toBaseUnits / fromBaseUnits) is outside    *)
(* src/; setter arguments are taken in base units.                         *)
(***************************************************************************)
EXTENDS Integers, Sequences, FiniteSets, TLC

VARIABLES
    surfaceInputs,      \* Surface::surfaceInputs_, the SurfaceInputs object
    surfaceFire,        \* Surface::surfaceFire_, what the last run computed
    crownInputs,        \* the CrownInputs object the Crown engines point to
    crown,              \* the Crown engines, by engine id
    undefinedBehaviour, \* TRUE once a handler has read through a null pointer
    lastCall            \* the last operation called and its arguments

vars == << surfaceInputs, surfaceFire, crownInputs, crown, undefinedBehaviour, lastCall >>

----------------------------------------------------------------------------
(* Enumerations (surfaceEnums.h is outside src/; the names are those the   *)
(* sources use).                                                           *)

MoistureInputModes ==
    { "BySizeClass", "AllAggregate", "DeadAggregateAndLiveSizeClass",
      "LiveAggregateAndDeadSizeClass", "MoistureScenario" }

WindHeightInputModes == { "DirectMidflame", "TwentyFoot", "TenMeter" }

TwoFuelModelsMethods == { "NoMethod", "Arithmetic", "Harmonic", "TwoDimensional" }

MoistureClassInputs ==
    { "OneHour", "TenHour", "HundredHour", "LiveHerbaceous", "LiveWoody",
      "DeadAggregate", "LiveAggregate" }

----------------------------------------------------------------------------
(* The fuel catalog (FuelModels, outside src/): which fuel model numbers   *)
(* are defined and which have zero load in every size class.               *)

FuelModelNumbers == { 0, 1, 10, 91 }

isFuelModelDefined(fuelModelNumber) == fuelModelNumber \in { 1, 10, 91 }

isAllFuelLoadZero(fuelModelNumber) == fuelModelNumber \in { 0, 91 }

(* The moisture scenario collection (MoistureScenarios, outside src/):     *)
(* the scenarios by index, each with its name and its five moistures.      *)

MoistureScenarioTable ==
    << [name |-> "D1L1", OneHour |-> 3, TenHour |-> 4, HundredHour |-> 5,
        LiveHerbaceous |-> 30, LiveWoody |-> 60],
       [name |-> "D4L4", OneHour |-> 12, TenHour |-> 13, HundredHour |-> 14,
        LiveHerbaceous |-> 120, LiveWoody |-> 150] >>

getIsMoistureScenarioDefinedByIndex(index) == index \in 0 .. (Len(MoistureScenarioTable) - 1)

getIsMoistureScenarioDefinedByName(name) ==
    \E i \in 1 .. Len(MoistureScenarioTable) : MoistureScenarioTable[i].name = name

getMoistureScenarioIndexByName(name) ==
    (CHOOSE i \in 1 .. Len(MoistureScenarioTable) : MoistureScenarioTable[i].name = name) - 1

getMoistureScenarioNameByIndex(index) == MoistureScenarioTable[index + 1].name

----------------------------------------------------------------------------
(* SurfaceInputs                                                           *)

\* SurfaceInputs::initializeMembers.  Members that no operation of the model
\* reads (air temperature, palmetto and aspen parameters, canopy cover, crown
\* ratio, elapsed time, wind adjustment factor) are left out of the record.
initializeMembers ==
    [ fuelModelNumber |-> 0,
      secondFuelModelNumber |-> 0,
      moistureOneHour |-> 0,
      moistureTenHour |-> 0,
      moistureHundredHour |-> 0,
      moistureDeadAggregate |-> -1,
      moistureLiveHerbaceous |-> 0,
      moistureLiveWoody |-> 0,
      moistureLiveAggregate |-> -1,
      slope |-> 0,
      aspect |-> 0,
      windSpeed |-> 0,
      windDirection |-> 0,
      moistureInputMode |-> "BySizeClass",
      isUsingTwoFuelModels |-> FALSE,
      isUsingPalmettoGallberry |-> FALSE,
      isUsingWesternAspen |-> FALSE,
      isUsingChaparral |-> FALSE,
      windHeightInputMode |-> "DirectMidflame",
      twoFuelModelsMethod |-> "NoMethod",
      firstFuelModelCoverage |-> 0,
      canopyHeight |-> 0,
      moistureScenarios |-> "nullptr",
      currentMoistureScenarioName |-> "",
      currentMoistureScenarioIndex |-> -1,
      moistureValuesBySizeClass |-> [ c \in MoistureClassInputs |-> -1 ] ]

\* The value one scenario getter returns for the current index.  Reading
\* through the null collection pointer, or with an index the collection does
\* not define, is undefined: the read yields the arbitrary value `garbage`.
readsUndefinedScenario(si) ==
    \/ si.moistureScenarios = "nullptr"
    \/ ~ getIsMoistureScenarioDefinedByIndex(si.currentMoistureScenarioIndex)

getMoistureScenarioValueByIndex(si, class, garbage) ==
    IF readsUndefinedScenario(si)
    THEN garbage
    ELSE MoistureScenarioTable[si.currentMoistureScenarioIndex + 1][class]

\* SurfaceInputs::updateMoisturesBasedOnInputMode
updateMoisturesBasedOnInputMode(si, garbage) ==
    LET mode == si.moistureInputMode
        values ==
            CASE mode = "BySizeClass" ->
                    [ OneHour |-> si.moistureOneHour,
                      TenHour |-> si.moistureTenHour,
                      HundredHour |-> si.moistureHundredHour,
                      LiveHerbaceous |-> si.moistureLiveHerbaceous,
                      LiveWoody |-> si.moistureLiveWoody,
                      DeadAggregate |-> -1,
                      LiveAggregate |-> -1 ]
              [] mode = "AllAggregate" ->
                    [ OneHour |-> si.moistureDeadAggregate,
                      TenHour |-> si.moistureDeadAggregate,
                      HundredHour |-> si.moistureDeadAggregate,
                      LiveHerbaceous |-> si.moistureLiveAggregate,
                      LiveWoody |-> si.moistureLiveAggregate,
                      DeadAggregate |-> si.moistureDeadAggregate,
                      LiveAggregate |-> si.moistureLiveAggregate ]
              [] mode = "DeadAggregateAndLiveSizeClass" ->
                    [ OneHour |-> si.moistureDeadAggregate,
                      TenHour |-> si.moistureDeadAggregate,
                      HundredHour |-> si.moistureDeadAggregate,
                      LiveHerbaceous |-> si.moistureLiveHerbaceous,
                      LiveWoody |-> si.moistureLiveWoody,
                      DeadAggregate |-> si.moistureDeadAggregate,
                      LiveAggregate |-> -1 ]
              [] mode = "LiveAggregateAndDeadSizeClass" ->
                    [ OneHour |-> si.moistureOneHour,
                      TenHour |-> si.moistureTenHour,
                      HundredHour |-> si.moistureHundredHour,
                      LiveHerbaceous |-> si.moistureLiveAggregate,
                      LiveWoody |-> si.moistureLiveAggregate,
                      DeadAggregate |-> -1,
                      LiveAggregate |-> si.moistureLiveAggregate ]
              [] mode = "MoistureScenario" ->
                    [ OneHour |-> getMoistureScenarioValueByIndex(si, "OneHour", garbage),
                      TenHour |-> getMoistureScenarioValueByIndex(si, "TenHour", garbage),
                      HundredHour |-> getMoistureScenarioValueByIndex(si, "HundredHour", garbage),
                      LiveHerbaceous |-> getMoistureScenarioValueByIndex(si, "LiveHerbaceous", garbage),
                      LiveWoody |-> getMoistureScenarioValueByIndex(si, "LiveWoody", garbage),
                      DeadAggregate |-> -1,
                      LiveAggregate |-> -1 ]
    IN  [ si EXCEPT !.moistureValuesBySizeClass = values ]

\* Whether updateMoisturesBasedOnInputMode, run on si, reads a scenario that
\* is not there.
updateReadsUndefinedScenario(si) ==
    si.moistureInputMode = "MoistureScenario" /\ readsUndefinedScenario(si)

setMoistureOneHour(si, moisture, garbage) ==
    updateMoisturesBasedOnInputMode([ si EXCEPT !.moistureOneHour = moisture ], garbage)

setMoistureTenHour(si, moisture, garbage) ==
    updateMoisturesBasedOnInputMode([ si EXCEPT !.moistureTenHour = moisture ], garbage)

setMoistureHundredHour(si, moisture, garbage) ==
    updateMoisturesBasedOnInputMode([ si EXCEPT !.moistureHundredHour = moisture ], garbage)

setMoistureLiveHerbaceous(si, moisture, garbage) ==
    updateMoisturesBasedOnInputMode([ si EXCEPT !.moistureLiveHerbaceous = moisture ], garbage)

setMoistureLiveWoody(si, moisture, garbage) ==
    updateMoisturesBasedOnInputMode([ si EXCEPT !.moistureLiveWoody = moisture ], garbage)

setMoistureDeadAggregate(si, moisture, garbage) ==
    updateMoisturesBasedOnInputMode([ si EXCEPT !.moistureDeadAggregate = moisture ], garbage)

setMoistureLiveAggregate(si, moisture, garbage) ==
    updateMoisturesBasedOnInputMode([ si EXCEPT !.moistureLiveAggregate = moisture ], garbage)

setMoistureInputModeWithoutUpdate(si, mode, garbage) ==
    [ si EXCEPT !.moistureInputMode = mode ]

setMoistureInputMode(si, mode, garbage) ==
    updateMoisturesBasedOnInputMode([ si EXCEPT !.moistureInputMode = mode ], garbage)

\* The moisture getters hand moistureValuesBySizeClass_ to the engine.
getMoistureOneHour(si) == si.moistureValuesBySizeClass["OneHour"]
getMoistureTenHour(si) == si.moistureValuesBySizeClass["TenHour"]
getMoistureHundredHour(si) == si.moistureValuesBySizeClass["HundredHour"]
getMoistureLiveHerbaceous(si) == si.moistureValuesBySizeClass["LiveHerbaceous"]
getMoistureLiveWoody(si) == si.moistureValuesBySizeClass["LiveWoody"]

setSlope(si, slope) == [ si EXCEPT !.slope = slope ]

\* A variant of setFuelModelNumber that stores nothing.
setFuelModelNumberDropped(si, fuelModelNumber) == si

setFuelModelNumber(si, fuelModelNumber) == [ si EXCEPT !.fuelModelNumber = fuelModelNumber ]

setSecondFuelModelNumber(si, n) == [ si EXCEPT !.secondFuelModelNumber = n ]

setWindHeightInputMode(si, mode) == [ si EXCEPT !.windHeightInputMode = mode ]

\* SurfaceInputs::setWindSpeed(windSpeed, units, windHeightInputMode)
setWindSpeed(si, windSpeed, mode) ==
    [ si EXCEPT !.windHeightInputMode = mode, !.windSpeed = windSpeed ]

setWindDirection(si, windDirection) == [ si EXCEPT !.windDirection = windDirection ]

setTwoFuelModelsMethod(si, method) == [ si EXCEPT !.twoFuelModelsMethod = method ]

setTwoFuelModelsFirstFuelModelCoverage(si, coverage) ==
    [ si EXCEPT !.firstFuelModelCoverage = coverage ]

setCanopyHeight(si, canopyHeight) == [ si EXCEPT !.canopyHeight = canopyHeight ]

getCanopyHeight(si) == si.canopyHeight

getFuelModelNumber(si) == si.fuelModelNumber

getWindSpeed(si) == si.windSpeed

getWindHeightInputMode(si) == si.windHeightInputMode

setIsUsingWesternAspen(si, isUsingWesternAspen) ==
    IF isUsingWesternAspen
    THEN [ si EXCEPT !.isUsingWesternAspen = TRUE,
                     !.isUsingChaparral = FALSE,
                     !.isUsingPalmettoGallberry = FALSE ]
    ELSE [ si EXCEPT !.isUsingWesternAspen = FALSE ]

setIsUsingPalmettoGallberry(si, isUsingPalmettoGallberry) ==
    IF isUsingPalmettoGallberry
    THEN [ si EXCEPT !.isUsingPalmettoGallberry = TRUE,
                     !.isUsingChaparral = FALSE,
                     !.isUsingWesternAspen = FALSE ]
    ELSE [ si EXCEPT !.isUsingPalmettoGallberry = FALSE ]

\* A variant of setIsUsingChaparral that leaves the other two flags alone.
setIsUsingChaparralOnly(si, isUsingChaparral) ==
    [ si EXCEPT !.isUsingChaparral = isUsingChaparral ]

setIsUsingChaparral(si, isUsingChaparral) ==
    IF isUsingChaparral
    THEN [ si EXCEPT !.isUsingChaparral = TRUE,
                     !.isUsingPalmettoGallberry = FALSE,
                     !.isUsingWesternAspen = FALSE ]
    ELSE [ si EXCEPT !.isUsingChaparral = FALSE ]

\* The wind direction updateSurfaceInputs stores: one turn is added to a
\* negative value, then whole turns are taken off while it is 360 or more.
RECURSIVE subtractTurns(_)
subtractTurns(windDirection) ==
    IF windDirection >= 360 THEN subtractTurns(windDirection - 360) ELSE windDirection

normalizeWindDirection(windDirection) ==
    subtractTurns(IF windDirection < 0 THEN windDirection + 360 ELSE windDirection)

\* SurfaceInputs::updateSurfaceInputs.  The arguments are the record a:
\* fuelModelNumber, moistureOneHour, moistureTenHour, moistureHundredHour,
\* moistureLiveHerbaceous, moistureLiveWoody, windSpeed, windHeightInputMode,
\* windDirection, slope, aspect, canopyHeight.
updateSurfaceInputs(si, a, garbage) ==
    LET s1 == [ setSlope(si, a.slope) EXCEPT !.aspect = a.aspect ]
        s2 == setFuelModelNumber(s1, a.fuelModelNumber)
        s3 == setMoistureOneHour(s2, a.moistureOneHour, garbage)
        s4 == setMoistureTenHour(s3, a.moistureTenHour, garbage)
        s5 == setMoistureHundredHour(s4, a.moistureHundredHour, garbage)
        s6 == setMoistureLiveHerbaceous(s5, a.moistureLiveHerbaceous, garbage)
        s7 == setMoistureLiveWoody(s6, a.moistureLiveWoody, garbage)
        s8 == setWindSpeed(s7, a.windSpeed, a.windHeightInputMode)
        s9 == setWindHeightInputMode(s8, a.windHeightInputMode)
        s10 == setWindDirection(s9, normalizeWindDirection(a.windDirection))
        s11 == [ s10 EXCEPT !.isUsingTwoFuelModels = FALSE ]
        s12 == setTwoFuelModelsMethod(s11, "NoMethod")
    IN  setCanopyHeight(s12, a.canopyHeight)

\* SurfaceInputs::updateSurfaceInputsForTwoFuelModels.  The record a holds, in
\* addition, secondFuelModelNumber, firstFuelModelCoverage, twoFuelModelsMethod.
\* A variant of updateSurfaceInputsForTwoFuelModels that does not raise the
\* two-fuel-models flag.
updateSurfaceInputsForTwoFuelModelsFlagless(si, a, garbage) ==
    updateSurfaceInputs(si, a, garbage)

updateSurfaceInputsForTwoFuelModels(si, a, garbage) ==
    LET s1 == updateSurfaceInputs(si, a, garbage)
        s2 == setSecondFuelModelNumber(s1, a.secondFuelModelNumber)
        s3 == setTwoFuelModelsFirstFuelModelCoverage(s2, a.firstFuelModelCoverage)
        s4 == [ s3 EXCEPT !.isUsingTwoFuelModels = TRUE ]
    IN  setTwoFuelModelsMethod(s4, a.twoFuelModelsMethod)

\* SurfaceInputs::updateSurfaceInputsForPalmettoGallbery: the base update with
\* fuel model number 0, then the four palmetto-gallberry parameters, which no
\* operation of the model reads.
updateSurfaceInputsForPalmettoGallbery(si, a, garbage) ==
    updateSurfaceInputs(si, [ a EXCEPT !.fuelModelNumber = 0 ], garbage)

\* SurfaceInputs::updateSurfaceInputsForWesternAspen: the base update with
\* fuel model number 0, then the four aspen parameters, which no operation of
\* the model reads.
updateSurfaceInputsForWesternAspen(si, a, garbage) ==
    updateSurfaceInputs(si, [ a EXCEPT !.fuelModelNumber = 0 ], garbage)

----------------------------------------------------------------------------
(* Surface                                                                 *)

\* floor(a * b / c) for a, b >= 0 and c > 0, without forming a * b.
mulDiv(a, b, c) == (a \div c) * b + ((a % c) * b) \div c

\* SurfaceFireSpread (outside src/) holds the Rothermel equations.  The model
\* keeps only that its results are a function of the fuel bed it is given (the
\* catalog fuel model, or the bed a special-fuel generator builds) and of the
\* inputs it reads, and that they are positive.  Spread rate in hundredths of
\* ft/min, heat per unit area in Btu/ft2, fireline intensity in Btu/ft/s.
fuelBedOf(si, fuelModelNumber) ==
    CASE si.isUsingPalmettoGallberry -> 5
      [] si.isUsingWesternAspen -> 6
      [] si.isUsingChaparral -> 7
      [] fuelModelNumber = 1 -> 1
      [] fuelModelNumber = 10 -> 2
      [] OTHER -> 0

wetnessOf(si) ==
    getMoistureOneHour(si) + getMoistureTenHour(si) + getMoistureHundredHour(si)
        + getMoistureLiveHerbaceous(si) + getMoistureLiveWoody(si)

rothermelSpreadRate(si, fuelModelNumber) ==
    4000 + 100 * fuelBedOf(si, fuelModelNumber) + 10 * si.windSpeed + 50 * si.slope
        - (IF si.slope > 0 THEN (si.windDirection % 360) \div 90 ELSE 0)
        - wetnessOf(si)

rothermelHeatPerUnitArea(si, fuelModelNumber) ==
    1000 + 20 * fuelBedOf(si, fuelModelNumber) - wetnessOf(si)

\* SurfaceFireSpread::calculateForwardSpreadRate: the state it leaves.
\* Fireline intensity = (spread rate / 60) x heat per unit area.
calculateForwardSpreadRate(si, fuelModelNumber) ==
    LET rate == rothermelSpreadRate(si, fuelModelNumber)
        hpua == rothermelHeatPerUnitArea(si, fuelModelNumber)
        intensity == mulDiv(rate, hpua, 6000)
    IN  [ lastCalculation |-> "calculateForwardSpreadRate",
          spreadRate |-> rate,
          heatPerUnitArea |-> hpua,
          firelineIntensity |-> intensity,
          flameLength |-> 1 + intensity \div 100 ]

\* SurfaceFireSpread::skipCalculationForZeroLoad: every output is zero.
skipCalculationForZeroLoad ==
    [ lastCalculation |-> "skipCalculationForZeroLoad",
      spreadRate |-> 0,
      heatPerUnitArea |-> 0,
      firelineIntensity |-> 0,
      flameLength |-> 0 ]

\* SurfaceTwoFuelModels::calculateWeightedSpreadRate (outside src/): both fuel
\* models are run and the rates weighted by the coverage of the first.
calculateWeightedSpreadRate(si, method, first, coverage, second) ==
    LET a == calculateForwardSpreadRate(si, first)
        b == calculateForwardSpreadRate(si, second)
        mix(x, y) == (coverage * x + (100 - coverage) * y) \div 100
    IN  [ lastCalculation |-> "calculateWeightedSpreadRate",
          spreadRate |-> mix(a.spreadRate, b.spreadRate),
          heatPerUnitArea |-> mix(a.heatPerUnitArea, b.heatPerUnitArea),
          firelineIntensity |-> mix(a.firelineIntensity, b.firelineIntensity),
          flameLength |-> mix(a.flameLength, b.flameLength) ]

\* The state of surfaceFire_ before any run.
surfaceFireInitializeMembers ==
    [ lastCalculation |-> "none",
      spreadRate |-> 0,
      heatPerUnitArea |-> 0,
      firelineIntensity |-> 0,
      flameLength |-> 0 ]

isUsingSpecialFuel(si) ==
    si.isUsingPalmettoGallberry \/ si.isUsingWesternAspen \/ si.isUsingChaparral

zeroLoadOrUndefined(fuelModelNumber) ==
    isAllFuelLoadZero(fuelModelNumber) \/ ~ isFuelModelDefined(fuelModelNumber)

\* A variant of skipsInDirectionOfMaxSpread that skips only for a fuel
\* model the catalog does not define.
skipsOnlyUndefined(si) ==
    ~ isUsingSpecialFuel(si) /\ ~ isFuelModelDefined(si.fuelModelNumber)

\* The condition under which the run in the direction of max spread skips
\* the calculation (surface.cpp line 96).
skipsInDirectionOfMaxSpread(si) ==
    ~ isUsingSpecialFuel(si) /\ zeroLoadOrUndefined(si.fuelModelNumber)

\* The condition under which the run in a direction of interest skips the
\* calculation (surface.cpp line 127).
skipsInDirectionOfInterest(si) ==
    zeroLoadOrUndefined(si.fuelModelNumber)

\* Surface::doSurfaceRunInDirectionOfMaxSpread, on the inputs si whose
\* moistures have been updated: the state of surfaceFire_ it leaves.
doSurfaceRunInDirectionOfMaxSpread(si) ==
    IF si.isUsingTwoFuelModels
    THEN calculateWeightedSpreadRate(si, si.twoFuelModelsMethod, si.fuelModelNumber, si.firstFuelModelCoverage, si.secondFuelModelNumber)
    ELSE IF skipsInDirectionOfMaxSpread(si)
         THEN skipCalculationForZeroLoad
         ELSE calculateForwardSpreadRate(si, si.fuelModelNumber)

\* Surface::doSurfaceRunInDirectionOfInterest
doSurfaceRunInDirectionOfInterest(si) ==
    IF si.isUsingTwoFuelModels
    THEN calculateWeightedSpreadRate(si, si.twoFuelModelsMethod, si.fuelModelNumber, si.firstFuelModelCoverage, si.secondFuelModelNumber)
    ELSE IF skipsInDirectionOfInterest(si)
         THEN skipCalculationForZeroLoad
         ELSE calculateForwardSpreadRate(si, si.fuelModelNumber)

----------------------------------------------------------------------------
(* Crown                                                                   *)
(* Scales: crown spread rates in hundredths of ft/min; crown fuel load in  *)
(* 1e-5 lb/ft2; heats per unit area in Btu/ft2; intensities in Btu/ft/s,   *)
(* the critical surface intensity in thousandths of Btu/ft/s; foliar       *)
(* moisture in percent.                                                    *)

\* CrownInputs (outside src/): canopy base height, canopy bulk density and
\* foliar moisture, zero after construction.
crownInputsInitializeMembers ==
    [ canopyBaseHeight |-> 0, canopyBulkDensity |-> 0, foliarMoisture |-> 0 ]

\* The members SurfaceInputs::memberwiseCopyAssignment copies.
CopiedMembers == DOMAIN initializeMembers

\* SurfaceInputs::memberwiseCopyAssignment (operator=)
memberwiseCopyAssignment(lhs, rhs) ==
    [ m \in DOMAIN lhs |-> IF m \in CopiedMembers THEN rhs[m] ELSE lhs[m] ]

\* The members of Crown that calculateCrownFireSpreadRate and the ratio
\* calculators assign.
CrownMembers ==
    { "windSpeedAtTwentyFeet", "crownFireSpreadRate",
      "crownCopyOfSurfaceHeatPerUnitArea", "crownCopyOfSurfaceFirelineIntensity",
      "crownFuelLoad", "canopyHeatPerUnitArea", "crownFireHeatPerUnitArea",
      "crownFirelineIntensity", "crownFlameLength", "crownCriticalFireSpreadRate",
      "crownCriticalSurfaceFireIntensity", "crownPowerOfFire", "crownPowerOfWind",
      "crownFirePowerRatio", "crownFireActiveRatio" }

\* A Crown that has not been constructed.  `assigned` is the set of members
\* the last calculateCrownFireSpreadRate and the calculators called since have
\* assigned; `calledWith` is what surfaceInputs_, crownInputs_ and surface_
\* pointed to at that call; `readUnassigned` is the set of members a step has
\* read since then before any step had assigned them.
crownNotConstructed ==
    [ constructed |-> FALSE,
      crownDeepCopyOfSurfaceInputs |-> initializeMembers,
      assigned |-> {},
      readUnassigned |-> {},
      calledWith |-> [ surfaceInputs |-> initializeMembers, crownInputs |-> crownInputsInitializeMembers, surfaceFire |-> surfaceFireInitializeMembers ],
      windSpeedAtTwentyFeet |-> 0,
      crownFireSpreadRate |-> 0,
      crownCopyOfSurfaceHeatPerUnitArea |-> 0,
      crownCopyOfSurfaceFirelineIntensity |-> 0,
      crownFuelLoad |-> 0,
      canopyHeatPerUnitArea |-> 0,
      crownFireHeatPerUnitArea |-> 0,
      crownFirelineIntensity |-> 0,
      crownFlameLength |-> 0,
      crownCriticalFireSpreadRate |-> 0,
      crownCriticalSurfaceFireIntensity |-> 0,
      crownPowerOfFire |-> 0,
      crownPowerOfWind |-> 0,
      crownFirePowerRatio |-> 0,
      crownFireActiveRatio |-> 0 ]

\* Crown::Crown: the pointers are set and the inputs are copied into
\* crownDeepCopyOfSurfaceInputs_ (a default-constructed SurfaceInputs).  The
\* constructor initializes no other member: each holds the indeterminate
\* value `garbage`.
Crown(si, garbage) ==
    [ m \in DOMAIN crownNotConstructed |->
        CASE m = "constructed" -> TRUE
          [] m = "crownDeepCopyOfSurfaceInputs" -> memberwiseCopyAssignment(initializeMembers, si)
          [] m = "assigned" -> {}
          [] m = "readUnassigned" -> {}
          [] m = "calledWith" -> crownNotConstructed.calledWith
          [] OTHER -> garbage ]

\* The assignment of one member, recorded in `assigned`.
assign(c, member, value) ==
    [ c EXCEPT ![member] = value, !.assigned = @ \cup { member } ]

\* The read of members by a step, recorded in `readUnassigned` for those
\* not assigned yet.
read(c, members) ==
    [ c EXCEPT !.readUnassigned = @ \cup (members \ c.assigned) ]

\* WindSpeedUtility::windSpeedAtTwentyFeetFromTenMeter (outside src/): the
\* 10-m wind speed divided by 1.15.
windSpeedAtTwentyFeetFromTenMeter(windSpeedAtTenMeters) ==
    (windSpeedAtTenMeters * 100) \div 115

\* Crown::calculateWindSpeedAtTwentyFeet: the value stored and returned;
\* -1 mph when the mode is neither twenty-foot nor ten-metre.
windSpeedAtTwentyFeetError == -10

\* A variant of calculateWindSpeedAtTwentyFeet that takes every mode but
\* ten-metre for twenty-foot.
calculateWindSpeedAtTwentyFeetWithoutError(si) ==
    CASE getWindHeightInputMode(si) = "TenMeter" -> windSpeedAtTwentyFeetFromTenMeter(getWindSpeed(si))
      [] OTHER -> getWindSpeed(si)

calculateWindSpeedAtTwentyFeet(si) ==
    CASE getWindHeightInputMode(si) = "TwentyFoot" -> getWindSpeed(si)
      [] getWindHeightInputMode(si) = "TenMeter" -> windSpeedAtTwentyFeetFromTenMeter(getWindSpeed(si))
      [] OTHER -> windSpeedAtTwentyFeetError

\* Crown::calculateCrownFuelLoad
calculateCrownFuelLoad(c, ci, si) ==
    assign(c, "crownFuelLoad", ci.canopyBulkDensity * (getCanopyHeight(si) - ci.canopyBaseHeight))

\* Crown::calculateCanopyHeatPerUnitArea: fuel load x 8000 Btu/lb.
LOW_HEAT_OF_COMBUSTION == 8000

calculateCanopyHeatPerUnitArea(c) ==
    assign(read(c, { "crownFuelLoad" }), "canopyHeatPerUnitArea", (c.crownFuelLoad * LOW_HEAT_OF_COMBUSTION) \div 100000)

\* A variant of calculateCrownFireHeatPerUnitArea that leaves the surface
\* fire out.
calculateCrownFireHeatPerUnitAreaOfCanopyOnly(c) ==
    assign(read(c, { "canopyHeatPerUnitArea" }), "crownFireHeatPerUnitArea", c.canopyHeatPerUnitArea)

\* Crown::calculateCrownFireHeatPerUnitArea
calculateCrownFireHeatPerUnitArea(c) ==
    assign(read(c, { "crownCopyOfSurfaceHeatPerUnitArea", "canopyHeatPerUnitArea" }), "crownFireHeatPerUnitArea", c.crownCopyOfSurfaceHeatPerUnitArea + c.canopyHeatPerUnitArea)

\* Crown::calculateCrownFirelineIntensity: (spread rate / 60) x HPUA.
calculateCrownFirelineIntensity(c) ==
    assign(read(c, { "crownFireSpreadRate", "crownFireHeatPerUnitArea" }), "crownFirelineIntensity", (c.crownFireSpreadRate * c.crownFireHeatPerUnitArea) \div 6000)

\* The integer part of the square root and of the cube root of n >= 0, by
\* bisection (the model's pow(x, 0.5) and pow(x, 1/3)).
RECURSIVE rootBetween(_, _, _, _)
rootBetween(n, cube, lo, hi) ==
    IF lo >= hi
    THEN lo
    ELSE LET mid == (lo + hi + 1) \div 2
             power == IF cube THEN mid * mid * mid ELSE mid * mid
         IN  IF power <= n
             THEN rootBetween(n, cube, mid, hi)
             ELSE rootBetween(n, cube, lo, mid - 1)

integerSquareRoot(n) == rootBetween(n, FALSE, 0, 46340)

integerCubeRoot(n) == rootBetween(n, TRUE, 0, 1290)

\* The value that stands for the NaN pow() returns for a negative base and a
\* fractional exponent.
NotANumber == -1

\* Crown::calculateCrownFlameLength: 0.2 x intensity^(2/3), in hundredths of
\* a foot.  The cube root is taken of 1000 x intensity, so the square of the
\* root is 100 x intensity^(2/3).
calculateCrownFlameLength(c) ==
    LET intensity == c.crownFirelineIntensity
        root == integerCubeRoot(1000 * intensity)
    IN  assign(read(c, { "crownFirelineIntensity" }), "crownFlameLength", IF intensity < 0 THEN NotANumber ELSE (root * root) \div 5)

\* Crown::calculateCrownCriticalFireSpreadRate.  The bulk density converted
\* to kg/m3 is 16.0185 x (thousandths of lb/ft3) / 1000, that is 160185 units
\* of 1e-7 kg/m3 per thousandth, so "below 1e-7" is "below 1 unit".  The rate
\* is 3 / density in m/min, times 3.28084, in hundredths of ft/min.
LBS_PER_CUBIC_FOOT_TO_KG_PER_CUBIC_METER == 160185

METERS_PER_MIN_TO_FEET_PER_MIN == 328084

\* A variant of calculateCrownCriticalFireSpreadRate that leaves the rate in
\* m/min.
calculateCrownCriticalFireSpreadRateInMeters(c, ci) ==
    LET convertedBulkDensity == LBS_PER_CUBIC_FOOT_TO_KG_PER_CUBIC_METER * ci.canopyBulkDensity
        metersPerMinTimes50 == IF convertedBulkDensity < 1 THEN 0 ELSE 1500000000 \div convertedBulkDensity
    IN  assign(c, "crownCriticalFireSpreadRate", 2 * metersPerMinTimes50)

calculateCrownCriticalFireSpreadRate(c, ci) ==
    LET convertedBulkDensity == LBS_PER_CUBIC_FOOT_TO_KG_PER_CUBIC_METER * ci.canopyBulkDensity
        metersPerMinTimes50 == IF convertedBulkDensity < 1 THEN 0 ELSE 1500000000 \div convertedBulkDensity
        whole == METERS_PER_MIN_TO_FEET_PER_MIN \div 100000
        fraction == METERS_PER_MIN_TO_FEET_PER_MIN % 100000
    IN  assign(c, "crownCriticalFireSpreadRate", 2 * metersPerMinTimes50 * whole + (2 * metersPerMinTimes50 * fraction) \div 100000)

\* Crown::calculateCrownCriticalSurfaceFireIntensity.  Foliar moisture is
\* floored at 30 percent and the crown base height, converted to metres (here
\* millimetres), at 0.1 m.  The intensity in kW/m is
\* (0.010 x height x (450 + 25.9 x moisture))^1.5, returned in Btu/ft/s.
FOLIAR_MOISTURE_FLOOR == 30

CROWN_BASE_HEIGHT_FLOOR == 100

FEET_TO_METERS == 3048

CRITICAL_INTENSITY_CONSTANT == 4500

KILOWATTS_PER_METER_TO_BTUS_PER_FOOT_PER_SECOND == 288672

\* floor(x * 0.288672) for x >= 0, without forming x * 288672.
kilowattsPerMeterToBtusPerFootPerSecond(x) ==
    LET high == KILOWATTS_PER_METER_TO_BTUS_PER_FOOT_PER_SECOND \div 1000
        low == KILOWATTS_PER_METER_TO_BTUS_PER_FOOT_PER_SECOND % 1000
    IN  (x * high) \div 1000 + (((x * high) % 1000) * 1000 + x * low) \div 1000000

\* x^1.5 for x in thousandths, in thousandths: x * sqrt(x).
powerOneAndAHalf(x) == (x * integerSquareRoot(1000 * x)) \div 1000

\* A variant of clampFoliarMoisture without the floor.
unclampedFoliarMoisture(foliarMoisture) == foliarMoisture

clampFoliarMoisture(foliarMoisture) ==
    IF foliarMoisture < FOLIAR_MOISTURE_FLOOR THEN FOLIAR_MOISTURE_FLOOR ELSE foliarMoisture

\* A variant of clampCrownBaseHeight without the floor.
unclampedCrownBaseHeight(canopyBaseHeight) == (canopyBaseHeight * FEET_TO_METERS) \div 1000

clampCrownBaseHeight(canopyBaseHeight) ==
    LET millimetres == (canopyBaseHeight * FEET_TO_METERS) \div 1000
    IN  IF millimetres < CROWN_BASE_HEIGHT_FLOOR THEN CROWN_BASE_HEIGHT_FLOOR ELSE millimetres

criticalSurfaceFireIntensity(foliarMoisture, canopyBaseHeight) ==
    LET moisture == clampFoliarMoisture(foliarMoisture)
        height == clampCrownBaseHeight(canopyBaseHeight)
        base == (height * (CRITICAL_INTENSITY_CONSTANT + 259 * moisture)) \div 1000
    IN  kilowattsPerMeterToBtusPerFootPerSecond(powerOneAndAHalf(base))

calculateCrownCriticalSurfaceFireIntensity(c, ci) ==
    assign(c, "crownCriticalSurfaceFireIntensity", criticalSurfaceFireIntensity(ci.foliarMoisture, ci.canopyBaseHeight))

\* Crown::calculateCrownCriticalSurfaceFlameLength computes the flame length
\* of the critical intensity into a local and returns it: no member changes.
calculateCrownCriticalSurfaceFlameLength(c) ==
    read(c, { "crownCriticalSurfaceFireIntensity" })

\* Crown::calculateCrownPowerOfFire: intensity / 129, in hundredths.
calculateCrownPowerOfFire(c) ==
    assign(read(c, { "crownFirelineIntensity" }), "crownPowerOfFire", (c.crownFirelineIntensity * 100) \div 129)

\* Crown::calcuateCrownPowerOfWind.  The 20-ft wind speed is recomputed and
\* stored; in ft/min it is 88 x mph.  The difference to the crown spread rate,
\* per second, is kept in tenths of ft/s and set to 0 when below 1e-7; the
\* power is 0.00106 x difference^3, in units of 1e-8.
MILES_PER_HOUR_TO_FEET_PER_MINUTE == 88

\* A variant of calcuateCrownPowerOfWind that cubes the difference whatever
\* its sign.
calcuateCrownPowerOfWindUnclamped(c, si) ==
    LET windSpeedAtTwentyFeet == calculateWindSpeedAtTwentyFeet(si)
        windSpeedInFeetPerMinute == 10 * windSpeedAtTwentyFeet * MILES_PER_HOUR_TO_FEET_PER_MINUTE
        difference == (windSpeedInFeetPerMinute - c.crownFireSpreadRate) \div 600
        c1 == assign(read(c, { "crownFireSpreadRate" }), "windSpeedAtTwentyFeet", windSpeedAtTwentyFeet)
    IN  assign(c1, "crownPowerOfWind", 106 * difference * difference * difference)

calcuateCrownPowerOfWind(c, si) ==
    LET windSpeedAtTwentyFeet == calculateWindSpeedAtTwentyFeet(si)
        windSpeedInFeetPerMinute == 10 * windSpeedAtTwentyFeet * MILES_PER_HOUR_TO_FEET_PER_MINUTE
        difference == (windSpeedInFeetPerMinute - c.crownFireSpreadRate) \div 600
        WindspeedMinusCrownROS == IF difference < 1 THEN 0 ELSE difference
        c1 == assign(read(c, { "crownFireSpreadRate" }), "windSpeedAtTwentyFeet", windSpeedAtTwentyFeet)
    IN  assign(c1, "crownPowerOfWind", 106 * WindspeedMinusCrownROS * WindspeedMinusCrownROS * WindspeedMinusCrownROS)

\* A variant of calculateCrownFireSpreadRate whose step 4 does not start with
\* calculateCrownFuelLoad.
calculateCrownFireSpreadRateWithoutFuelLoad(c, ci, si, sf) ==
    LET copy1 == setFuelModelNumber(c.crownDeepCopyOfSurfaceInputs, 10)
        copy2 == setSlope(copy1, 0)
        copy3 == setWindDirection(copy2, 0)
        windSpeedAtTwentyFeet == calculateWindSpeedAtTwentyFeet(si)
        midflameWindSpeed == (4 * windSpeedAtTwentyFeet) \div 10
        copy4 == [ copy3 EXCEPT !.windSpeed = midflameWindSpeed ]
        crownFireSpread == calculateForwardSpreadRate(copy4, getFuelModelNumber(copy4))
        c0 == [ c EXCEPT !.crownDeepCopyOfSurfaceInputs = copy4, !.assigned = {}, !.readUnassigned = {} ]
        c1 == assign(c0, "windSpeedAtTwentyFeet", windSpeedAtTwentyFeet)
        c2 == assign(c1, "crownFireSpreadRate", (334 * crownFireSpread.spreadRate) \div 100)
        c3 == assign(c2, "crownCopyOfSurfaceHeatPerUnitArea", sf.heatPerUnitArea)
        c4 == assign(c3, "crownCopyOfSurfaceFirelineIntensity", sf.firelineIntensity)
        c5 == c4
        c6 == calculateCanopyHeatPerUnitArea(c5)
        c7 == calculateCrownFireHeatPerUnitArea(c6)
        c8 == calculateCrownFirelineIntensity(c7)
        c9 == calculateCrownFlameLength(c8)
        c10 == calculateCrownCriticalFireSpreadRate(c9, ci)
        c11 == calculateCrownCriticalSurfaceFireIntensity(c10, ci)
        c12 == calculateCrownCriticalSurfaceFlameLength(c11)
        c13 == calculateCrownPowerOfFire(c12)
    IN  calcuateCrownPowerOfWind(c13, si)

\* Crown::calculateCrownFireSpreadRate, on the engine c, the crown inputs ci,
\* the inputs si that surfaceInputs_ points to and the state sf of the Surface
\* that surface_ points to.
calculateCrownFireSpreadRate(c, ci, si, sf) ==
    LET copy1 == setFuelModelNumber(c.crownDeepCopyOfSurfaceInputs, 10)
        copy2 == setSlope(copy1, 0)
        copy3 == setWindDirection(copy2, 0)
        windSpeedAtTwentyFeet == calculateWindSpeedAtTwentyFeet(si)
        midflameWindSpeed == (4 * windSpeedAtTwentyFeet) \div 10
        copy4 == [ copy3 EXCEPT !.windSpeed = midflameWindSpeed ]
        crownFireSpread == calculateForwardSpreadRate(copy4, getFuelModelNumber(copy4))
        c0 == [ c EXCEPT !.crownDeepCopyOfSurfaceInputs = copy4, !.assigned = {}, !.readUnassigned = {} ]
        c1 == assign(c0, "windSpeedAtTwentyFeet", windSpeedAtTwentyFeet)
        c2 == assign(c1, "crownFireSpreadRate", (334 * crownFireSpread.spreadRate) \div 100)
        c3 == assign(c2, "crownCopyOfSurfaceHeatPerUnitArea", sf.heatPerUnitArea)
        c4 == assign(c3, "crownCopyOfSurfaceFirelineIntensity", sf.firelineIntensity)
        c5 == calculateCrownFuelLoad(c4, ci, si)
        c6 == calculateCanopyHeatPerUnitArea(c5)
        c7 == calculateCrownFireHeatPerUnitArea(c6)
        c8 == calculateCrownFirelineIntensity(c7)
        c9 == calculateCrownFlameLength(c8)
        c10 == calculateCrownCriticalFireSpreadRate(c9, ci)
        c11 == calculateCrownCriticalSurfaceFireIntensity(c10, ci)
        c12 == calculateCrownCriticalSurfaceFlameLength(c11)
        c13 == calculateCrownPowerOfFire(c12)
    IN  calcuateCrownPowerOfWind(c13, si)

\* A variant of calculateCrownFireTransitionRatio that divides whatever the
\* critical intensity is.
calculateCrownFireTransitionRatioUnguarded(c) ==
    (c.crownCopyOfSurfaceFirelineIntensity * 100000) \div c.crownCriticalSurfaceFireIntensity

\* Crown::calculateCrownFireTransitionRatio: the value returned, in
\* hundredths; no member is assigned.
calculateCrownFireTransitionRatio(c) ==
    IF c.crownCriticalSurfaceFireIntensity < 1
    THEN 0
    ELSE (c.crownCopyOfSurfaceFirelineIntensity * 100000) \div c.crownCriticalSurfaceFireIntensity

\* Crown::calculateCrownFireActiveRatio, in thousandths.
calculateCrownFireActiveRatio(c) ==
    assign(read(c, { "crownCriticalFireSpreadRate", "crownFireSpreadRate" }), "crownFireActiveRatio", IF c.crownCriticalFireSpreadRate < 1 THEN 0 ELSE (c.crownFireSpreadRate * 1000) \div c.crownCriticalFireSpreadRate)

\* Crown::calcualteCrownFirePowerRatio: power of fire (hundredths) over power
\* of wind (units of 1e-8) when the latter exceeds 1e-7.
calcualteCrownFirePowerRatio(c) ==
    assign(read(c, { "crownPowerOfWind", "crownPowerOfFire" }), "crownFirePowerRatio", IF c.crownPowerOfWind > 10 THEN (c.crownPowerOfFire * 10000) \div (c.crownPowerOfWind \div 100) ELSE 0)

----------------------------------------------------------------------------
(* Bounds and the inputs the operations are called with                    *)

MaxMoisture == 12
MaxWindDirection == 800
MaxWindSpeed == 50
MaxCanopyHeight == 3000
MaxFoliarMoisture == 120

Engines == { 1, 2 }

\* What a read of an indeterminate value may yield.
GarbageValues == { -1, 7 }

MoistureArgs == { 0, MaxMoisture }

\* Every fifteenth degree, below -360 and above 360 included.
WindDirectionArgs ==
    { d \in (0 - MaxWindDirection) .. MaxWindDirection : d % 15 = 0 }

\* The arguments of updateSurfaceInputs that a specification does not vary.
DefaultArgs ==
    [ fuelModelNumber |-> 1,
      secondFuelModelNumber |-> 1,
      moistureOneHour |-> 6,
      moistureTenHour |-> 7,
      moistureHundredHour |-> 8,
      moistureLiveHerbaceous |-> 60,
      moistureLiveWoody |-> 90,
      windSpeed |-> MaxWindSpeed,
      windHeightInputMode |-> "TwentyFoot",
      windDirection |-> 0,
      slope |-> 0,
      aspect |-> 0,
      canopyHeight |-> MaxCanopyHeight,
      firstFuelModelCoverage |-> 50,
      twoFuelModelsMethod |-> "TwoDimensional" ]

----------------------------------------------------------------------------
(* The state after construction                                            *)

Init ==
    /\ surfaceInputs = initializeMembers
    /\ surfaceFire = surfaceFireInitializeMembers
    /\ crownInputs = crownInputsInitializeMembers
    /\ crown = [ e \in Engines |-> crownNotConstructed ]
    /\ undefinedBehaviour = FALSE
    /\ lastCall = [ op |-> "none", arg |-> 0 ]

----------------------------------------------------------------------------
(* The operations, one action each                                         *)

\* A call that leaves the inputs as si and touches neither the surface fire
\* nor the crown. undefinedBehaviour records a read of a scenario that is
\* not there.
inputsBecome(si, updatesMoistures) ==
    /\ surfaceInputs' = si
    /\ undefinedBehaviour' = (undefinedBehaviour \/ (updatesMoistures /\ updateReadsUndefinedScenario(si)))
    /\ UNCHANGED << surfaceFire, crownInputs, crown >>

SetIsUsingPalmettoGallberry(b) ==
    /\ lastCall' = [ op |-> "setIsUsingPalmettoGallberry", arg |-> b ]
    /\ inputsBecome(setIsUsingPalmettoGallberry(surfaceInputs, b), FALSE)

SetIsUsingWesternAspen(b) ==
    /\ lastCall' = [ op |-> "setIsUsingWesternAspen", arg |-> b ]
    /\ inputsBecome(setIsUsingWesternAspen(surfaceInputs, b), FALSE)

SetIsUsingChaparral(b) ==
    /\ lastCall' = [ op |-> "setIsUsingChaparral", arg |-> b ]
    /\ inputsBecome(setIsUsingChaparral(surfaceInputs, b), FALSE)

SetFuelModelNumber(n) ==
    /\ lastCall' = [ op |-> "setFuelModelNumber", arg |-> n ]
    /\ inputsBecome(setFuelModelNumber(surfaceInputs, n), FALSE)

SetCanopyHeight(h) ==
    /\ lastCall' = [ op |-> "setCanopyHeight", arg |-> h ]
    /\ inputsBecome(setCanopyHeight(surfaceInputs, h), FALSE)

SetWindSpeed(windSpeed, mode) ==
    /\ lastCall' = [ op |-> "setWindSpeed", arg |-> windSpeed ]
    /\ inputsBecome(setWindSpeed(surfaceInputs, windSpeed, mode), FALSE)

SetMoistureOneHour(m, g) ==
    /\ lastCall' = [ op |-> "setMoistureOneHour", arg |-> m ]
    /\ inputsBecome(setMoistureOneHour(surfaceInputs, m, g), TRUE)

SetMoistureTenHour(m, g) ==
    /\ lastCall' = [ op |-> "setMoistureTenHour", arg |-> m ]
    /\ inputsBecome(setMoistureTenHour(surfaceInputs, m, g), TRUE)

SetMoistureHundredHour(m, g) ==
    /\ lastCall' = [ op |-> "setMoistureHundredHour", arg |-> m ]
    /\ inputsBecome(setMoistureHundredHour(surfaceInputs, m, g), TRUE)

SetMoistureLiveHerbaceous(m, g) ==
    /\ lastCall' = [ op |-> "setMoistureLiveHerbaceous", arg |-> m ]
    /\ inputsBecome(setMoistureLiveHerbaceous(surfaceInputs, m, g), TRUE)

SetMoistureLiveWoody(m, g) ==
    /\ lastCall' = [ op |-> "setMoistureLiveWoody", arg |-> m ]
    /\ inputsBecome(setMoistureLiveWoody(surfaceInputs, m, g), TRUE)

SetMoistureDeadAggregate(m, g) ==
    /\ lastCall' = [ op |-> "setMoistureDeadAggregate", arg |-> m ]
    /\ inputsBecome(setMoistureDeadAggregate(surfaceInputs, m, g), TRUE)

SetMoistureLiveAggregate(m, g) ==
    /\ lastCall' = [ op |-> "setMoistureLiveAggregate", arg |-> m ]
    /\ inputsBecome(setMoistureLiveAggregate(surfaceInputs, m, g), TRUE)

SetMoistureInputMode(mode, g) ==
    /\ lastCall' = [ op |-> "setMoistureInputMode", arg |-> mode ]
    /\ inputsBecome(setMoistureInputMode(surfaceInputs, mode, g), TRUE)

UpdateSurfaceInputs(a, g) ==
    /\ lastCall' = [ op |-> "updateSurfaceInputs", arg |-> a ]
    /\ inputsBecome(updateSurfaceInputs(surfaceInputs, a, g), TRUE)

UpdateSurfaceInputsForTwoFuelModels(a, g) ==
    /\ lastCall' = [ op |-> "updateSurfaceInputsForTwoFuelModels", arg |-> a ]
    /\ inputsBecome(updateSurfaceInputsForTwoFuelModels(surfaceInputs, a, g), TRUE)

UpdateSurfaceInputsForPalmettoGallbery(a, g) ==
    /\ lastCall' = [ op |-> "updateSurfaceInputsForPalmettoGallbery", arg |-> a ]
    /\ inputsBecome(updateSurfaceInputsForPalmettoGallbery(surfaceInputs, a, g), TRUE)

UpdateSurfaceInputsForWesternAspen(a, g) ==
    /\ lastCall' = [ op |-> "updateSurfaceInputsForWesternAspen", arg |-> a ]
    /\ inputsBecome(updateSurfaceInputsForWesternAspen(surfaceInputs, a, g), TRUE)

\* Surface::doSurfaceRunInDirectionOfMaxSpread: the moistures are updated,
\* then the run.
DoSurfaceRunInDirectionOfMaxSpread(g) ==
    LET si == updateMoisturesBasedOnInputMode(surfaceInputs, g)
    IN  /\ surfaceInputs' = si
        /\ surfaceFire' = doSurfaceRunInDirectionOfMaxSpread(si)
        /\ undefinedBehaviour' = (undefinedBehaviour \/ updateReadsUndefinedScenario(si))
        /\ lastCall' = [ op |-> "doSurfaceRunInDirectionOfMaxSpread", arg |-> 0 ]
        /\ UNCHANGED << crownInputs, crown >>

\* Surface::doSurfaceRunInDirectionOfInterest
DoSurfaceRunInDirectionOfInterest(directionOfInterest, g) ==
    LET si == updateMoisturesBasedOnInputMode(surfaceInputs, g)
    IN  /\ surfaceInputs' = si
        /\ surfaceFire' = doSurfaceRunInDirectionOfInterest(si)
        /\ undefinedBehaviour' = (undefinedBehaviour \/ updateReadsUndefinedScenario(si))
        /\ lastCall' = [ op |-> "doSurfaceRunInDirectionOfInterest", arg |-> directionOfInterest ]
        /\ UNCHANGED << crownInputs, crown >>

----------------------------------------------------------------------------
(* Spec: the fuel selection and the surface run                            *)

FuelArgs ==
    { [ DefaultArgs EXCEPT !.fuelModelNumber = n ] : n \in FuelModelNumbers }

TwoFuelArgs ==
    { [ DefaultArgs EXCEPT !.fuelModelNumber = n, !.secondFuelModelNumber = n2, !.twoFuelModelsMethod = m ] :
        n \in { 1, 91 }, n2 \in { 1, 10 }, m \in { "NoMethod", "TwoDimensional" } }

Next ==
    \/ \E b \in BOOLEAN : SetIsUsingPalmettoGallberry(b)
    \/ \E b \in BOOLEAN : SetIsUsingWesternAspen(b)
    \/ \E b \in BOOLEAN : SetIsUsingChaparral(b)
    \/ \E n \in FuelModelNumbers : SetFuelModelNumber(n)
    \/ \E a \in FuelArgs, g \in GarbageValues : UpdateSurfaceInputs(a, g)
    \/ \E a \in TwoFuelArgs, g \in GarbageValues : UpdateSurfaceInputsForTwoFuelModels(a, g)
    \/ \E g \in GarbageValues : UpdateSurfaceInputsForPalmettoGallbery(DefaultArgs, g)
    \/ \E g \in GarbageValues : UpdateSurfaceInputsForWesternAspen(DefaultArgs, g)
    \/ \E g \in GarbageValues : DoSurfaceRunInDirectionOfMaxSpread(g)
    \/ \E d \in { 0, 90 }, g \in GarbageValues : DoSurfaceRunInDirectionOfInterest(d, g)

Spec == Init /\ [][Next]_vars

----------------------------------------------------------------------------
(* Properties of the fuel selection and the surface run                    *)

afterSurfaceRun ==
    lastCall.op \in { "doSurfaceRunInDirectionOfMaxSpread", "doSurfaceRunInDirectionOfInterest" }

afterSingleFuelRun == afterSurfaceRun /\ ~ surfaceInputs.isUsingTwoFuelModels

specialFlagsSet ==
    { f \in { "isUsingPalmettoGallberry", "isUsingWesternAspen", "isUsingChaparral" } : surfaceInputs[f] }

fuelFlagsSet ==
    specialFlagsSet \cup (IF surfaceInputs.isUsingTwoFuelModels THEN { "isUsingTwoFuelModels" } ELSE {})

\* C1 as stated: after a single-fuel run through either entry point on a
\* fuel model the catalog reports as zero-load or undefined, the engine took
\* skipCalculationForZeroLoad and every output is zero, whatever the flags.
C1_SkipWhateverTheFlags ==
    (afterSingleFuelRun /\ zeroLoadOrUndefined(surfaceInputs.fuelModelNumber))
        => surfaceFire = skipCalculationForZeroLoad

\* C1 amended: after a single-fuel run through either entry point with no
\* special fuel mode enabled, on a fuel model the catalog reports as
\* zero-load or undefined, the engine took skipCalculationForZeroLoad, not
\* calculateForwardSpreadRate, and every output is zero.
C1_SkipWithoutSpecialFuel ==
    (/\ afterSingleFuelRun
     /\ ~ isUsingSpecialFuel(surfaceInputs)
     /\ zeroLoadOrUndefined(surfaceInputs.fuelModelNumber))
        => /\ surfaceFire.lastCalculation = "skipCalculationForZeroLoad"
           /\ surfaceFire.spreadRate = 0
           /\ surfaceFire.heatPerUnitArea = 0
           /\ surfaceFire.firelineIntensity = 0
           /\ surfaceFire.flameLength = 0

\* A run in the direction of max spread on the defined zero-load fuel model
\* with wind set and no special fuel mode has skipped the calculation.
C1_Witness ==
    /\ lastCall.op = "doSurfaceRunInDirectionOfMaxSpread"
    /\ ~ surfaceInputs.isUsingTwoFuelModels
    /\ ~ isUsingSpecialFuel(surfaceInputs)
    /\ surfaceInputs.fuelModelNumber = 91
    /\ surfaceInputs.windSpeed > 0
    /\ surfaceFire.lastCalculation = "skipCalculationForZeroLoad"

\* C2: after a run through either entry point with a special fuel mode
\* enabled and two-fuel-models off, the engine took
\* calculateForwardSpreadRate, whatever the catalog says of the fuel model.
C2_SpecialFuelAlwaysCalculates ==
    (afterSingleFuelRun /\ isUsingSpecialFuel(surfaceInputs))
        => surfaceFire.lastCalculation = "calculateForwardSpreadRate"

\* C3: at most one of the three special fuel flags is true, and a call of a
\* setIsUsing* setter with true leaves exactly that flag true.
C3_SpecialFlagsExclusive ==
    /\ Cardinality(specialFlagsSet) <= 1
    /\ (lastCall.op = "setIsUsingPalmettoGallberry" /\ lastCall.arg)
           => specialFlagsSet = { "isUsingPalmettoGallberry" }
    /\ (lastCall.op = "setIsUsingWesternAspen" /\ lastCall.arg)
           => specialFlagsSet = { "isUsingWesternAspen" }
    /\ (lastCall.op = "setIsUsingChaparral" /\ lastCall.arg)
           => specialFlagsSet = { "isUsingChaparral" }

\* setIsUsingChaparral(true) has been called after a run that calculated a
\* spread rate, and chaparral is the flag that is set.
C3_Witness ==
    /\ lastCall.op = "setIsUsingChaparral"
    /\ lastCall.arg
    /\ surfaceInputs.isUsingChaparral
    /\ surfaceFire.lastCalculation = "calculateForwardSpreadRate"

----------------------------------------------------------------------------
(* SpecWind: the update operations called with any wind direction          *)

WindArgs ==
    { [ DefaultArgs EXCEPT !.windDirection = d ] : d \in WindDirectionArgs }

NextWind ==
    \/ \E a \in WindArgs, g \in GarbageValues : UpdateSurfaceInputs(a, g)
    \/ \E a \in WindArgs, g \in GarbageValues : UpdateSurfaceInputsForTwoFuelModels(a, g)
    \/ \E a \in WindArgs, g \in GarbageValues : UpdateSurfaceInputsForPalmettoGallbery(a, g)
    \/ \E a \in WindArgs, g \in GarbageValues : UpdateSurfaceInputsForWesternAspen(a, g)

SpecWind == Init /\ [][NextWind]_vars

afterUpdate ==
    lastCall.op \in { "updateSurfaceInputs", "updateSurfaceInputsForTwoFuelModels",
                      "updateSurfaceInputsForPalmettoGallbery", "updateSurfaceInputsForWesternAspen" }

\* C5: the wind direction an update operation has stored lies in [0, 360)
\* and is congruent modulo 360 to the direction it was called with.
C5_WindDirectionNormalized ==
    afterUpdate =>
        /\ surfaceInputs.windDirection >= 0
        /\ surfaceInputs.windDirection < 360
        /\ (surfaceInputs.windDirection - lastCall.arg.windDirection) % 360 = 0

----------------------------------------------------------------------------
(* SpecMoisture: the moisture setters and the moisture input mode          *)

NextMoisture ==
    \/ \E m \in MoistureArgs, g \in GarbageValues : SetMoistureOneHour(m, g)
    \/ \E m \in MoistureArgs, g \in GarbageValues : SetMoistureTenHour(m, g)
    \/ \E m \in MoistureArgs, g \in GarbageValues : SetMoistureHundredHour(m, g)
    \/ \E m \in MoistureArgs, g \in GarbageValues : SetMoistureLiveHerbaceous(m, g)
    \/ \E m \in MoistureArgs, g \in GarbageValues : SetMoistureLiveWoody(m, g)
    \/ \E m \in MoistureArgs, g \in GarbageValues : SetMoistureDeadAggregate(m, g)
    \/ \E m \in MoistureArgs, g \in GarbageValues : SetMoistureLiveAggregate(m, g)
    \/ \E mode \in MoistureInputModes, g \in GarbageValues : SetMoistureInputMode(mode, g)

SpecMoisture == Init /\ [][NextMoisture]_vars

afterMoistureCall ==
    lastCall.op \in { "setMoistureOneHour", "setMoistureTenHour", "setMoistureHundredHour",
                      "setMoistureLiveHerbaceous", "setMoistureLiveWoody",
                      "setMoistureDeadAggregate", "setMoistureLiveAggregate",
                      "setMoistureInputMode" }

\* C6: after any call of a moisture setter or of setMoistureInputMode with
\* a non-negative argument, the five moistures handed to the spread engine
\* are non-negative.
C6_MoisturesNonNegative ==
    afterMoistureCall =>
        /\ getMoistureOneHour(surfaceInputs) >= 0
        /\ getMoistureTenHour(surfaceInputs) >= 0
        /\ getMoistureHundredHour(surfaceInputs) >= 0
        /\ getMoistureLiveHerbaceous(surfaceInputs) >= 0
        /\ getMoistureLiveWoody(surfaceInputs) >= 0

----------------------------------------------------------------------------
(* SpecCrown: two Crown engines over the same inputs                       *)

MaxCanopyBaseHeight == 600
MaxCanopyBulkDensity == 30

\* CrownInputs::updateCrownInputs (outside src/)
UpdateCrownInputs(canopyBaseHeight, canopyBulkDensity, foliarMoisture) ==
    /\ crownInputs' = [ canopyBaseHeight |-> canopyBaseHeight, canopyBulkDensity |-> canopyBulkDensity, foliarMoisture |-> foliarMoisture ]
    /\ lastCall' = [ op |-> "updateCrownInputs", arg |-> 0 ]
    /\ UNCHANGED << surfaceInputs, surfaceFire, crown, undefinedBehaviour >>

\* Crown::Crown.  The engines are numbered in the order of construction.
ConstructCrown(e, g) ==
    /\ ~ crown[e].constructed
    /\ \A d \in Engines : d < e => crown[d].constructed
    /\ crown' = [ crown EXCEPT ![e] = Crown(surfaceInputs, g) ]
    /\ lastCall' = [ op |-> "Crown", arg |-> e ]
    /\ UNCHANGED << surfaceInputs, surfaceFire, crownInputs, undefinedBehaviour >>

\* Crown::calculateCrownFireSpreadRate
CalculateCrownFireSpreadRate(e) ==
    /\ crown[e].constructed
    /\ crown' = [ crown EXCEPT ![e] =
                    [ calculateCrownFireSpreadRate(crown[e], crownInputs, surfaceInputs, surfaceFire)
                        EXCEPT !.calledWith = [ surfaceInputs |-> surfaceInputs, crownInputs |-> crownInputs, surfaceFire |-> surfaceFire ] ] ]
    /\ lastCall' = [ op |-> "calculateCrownFireSpreadRate", arg |-> e ]
    /\ UNCHANGED << surfaceInputs, surfaceFire, crownInputs, undefinedBehaviour >>

NextCrown ==
    \/ \E g \in GarbageValues : UpdateSurfaceInputs(DefaultArgs, g)
    \/ \E g \in GarbageValues : SetMoistureOneHour(MaxMoisture, g)
    \/ UpdateCrownInputs(MaxCanopyBaseHeight, MaxCanopyBulkDensity, MaxFoliarMoisture)
    \/ \E g \in GarbageValues : DoSurfaceRunInDirectionOfMaxSpread(g)
    \/ \E e \in Engines, g \in GarbageValues : ConstructCrown(e, g)
    \/ \E e \in Engines : CalculateCrownFireSpreadRate(e)

SpecCrown == Init /\ [][NextCrown]_vars

afterCrownCalculation == lastCall.op = "calculateCrownFireSpreadRate"

\* C7: the crown spread rate calculateCrownFireSpreadRate has stored is 3.34
\* times the spread rate of a direct surface run on the inputs current at the
\* call with only these overrides: fuel model 10, slope 0, wind direction 0
\* and the wind speed 0.4 times the 20-ft wind speed.
C7_CrownSpreadRateFromCurrentInputs ==
    afterCrownCalculation =>
        LET direct == [ surfaceInputs EXCEPT !.fuelModelNumber = 10,
                                             !.slope = 0,
                                             !.windDirection = 0,
                                             !.windSpeed = (4 * calculateWindSpeedAtTwentyFeet(surfaceInputs)) \div 10 ]
        IN  crown[lastCall.arg].crownFireSpreadRate
                = (334 * calculateForwardSpreadRate(direct, 10).spreadRate) \div 100

\* C8: two engines whose surface and crown inputs were equal at the time of
\* their calls hold equal crown spread rate, intensity, flame length and
\* power terms, whatever happened before the calls.
C8_OutputsDependOnlyOnCurrentInputs ==
    LET hasCalculated(e) == "crownFireSpreadRate" \in crown[e].assigned
        crownOutputs(e) ==
            << crown[e].crownFireSpreadRate, crown[e].crownFirelineIntensity, crown[e].crownFlameLength,
               crown[e].crownPowerOfFire, crown[e].crownPowerOfWind >>
    IN  \A e1 \in Engines, e2 \in Engines :
            (hasCalculated(e1) /\ hasCalculated(e2) /\ crown[e1].calledWith = crown[e2].calledWith)
                => crownOutputs(e1) = crownOutputs(e2)

\* C9: an invocation of calculateCrownFireSpreadRate has assigned every
\* field of CrownFireState.
C9_EveryFieldAssigned ==
    LET CrownFireStateFields ==
            { "crownFuelLoad", "canopyHeatPerUnitArea", "crownFireHeatPerUnitArea",
              "crownFireSpreadRate", "crownFirelineIntensity", "crownFlameLength",
              "crownCriticalSurfaceFireIntensity", "crownCriticalSurfaceFlameLength",
              "crownCriticalFireSpreadRate", "crownFireTransitionRatio", "crownFireActiveRatio",
              "crownPowerOfFire", "crownPowerOfWind", "crownFirePowerRatio" }
    IN  afterCrownCalculation => CrownFireStateFields \subseteq crown[lastCall.arg].assigned

----------------------------------------------------------------------------
(* SpecCritical: the critical surface fire intensity over a grid of crown  *)
(* inputs, below, at and above the floors                                  *)

CanopyBaseHeightArgs ==
    { h \in 0 .. MaxCanopyBaseHeight : h % 100 = 0 \/ h \in { 10, 32, 33, 34 } }

FoliarMoistureArgs ==
    { m \in 0 .. MaxFoliarMoisture : m % 10 = 0 \/ m \in { 29, 31 } }

InitCritical ==
    /\ surfaceInputs = initializeMembers
    /\ surfaceFire = surfaceFireInitializeMembers
    /\ crownInputs \in [ canopyBaseHeight : CanopyBaseHeightArgs, canopyBulkDensity : { MaxCanopyBulkDensity }, foliarMoisture : FoliarMoistureArgs ]
    /\ crown = [ e \in Engines |-> crownNotConstructed ]
    /\ undefinedBehaviour = FALSE
    /\ lastCall = [ op |-> "none", arg |-> 0 ]

\* Crown::calculateCrownCriticalSurfaceFireIntensity
CalculateCrownCriticalSurfaceFireIntensity(e) ==
    /\ crown[e].constructed
    /\ crown' = [ crown EXCEPT ![e] = calculateCrownCriticalSurfaceFireIntensity(crown[e], crownInputs) ]
    /\ lastCall' = [ op |-> "calculateCrownCriticalSurfaceFireIntensity", arg |-> e ]
    /\ UNCHANGED << surfaceInputs, surfaceFire, crownInputs, undefinedBehaviour >>

NextCritical ==
    \/ \E e \in Engines, g \in GarbageValues : ConstructCrown(e, g)
    \/ \E e \in Engines : CalculateCrownCriticalSurfaceFireIntensity(e)

SpecCritical == InitCritical /\ [][NextCritical]_vars

afterCriticalIntensity == lastCall.op = "calculateCrownCriticalSurfaceFireIntensity"

\* C10: the critical surface fire intensity stored is the formula with the
\* constant 450 at foliar moisture max(input, 30) and crown base height
\* max(input in metres, 0.1); for inputs at or below both floors it is the
\* value at 0.1 m and 30 percent, 0.392 Btu/ft/s.  The formula is
\* (0.01 x height x (450 + 25.9 x moisture))^1.5 x 0.288672 for a height in
\* millimetres and a moisture in percent, in thousandths of Btu/ft/s.
C10_CriticalIntensityClamped ==
    afterCriticalIntensity =>
        LET criticalIntensityFormula(mm, m) ==
                kilowattsPerMeterToBtusPerFootPerSecond(powerOneAndAHalf((mm * (4500 + 259 * m)) \div 1000))
            result == crown[lastCall.arg].crownCriticalSurfaceFireIntensity
            moisture == crownInputs.foliarMoisture
            millimetres == (crownInputs.canopyBaseHeight * FEET_TO_METERS) \div 1000
        IN  /\ (moisture <= 30 /\ millimetres <= 100) => result = 392
            /\ result = criticalIntensityFormula(IF millimetres > 100 THEN millimetres ELSE 100,
                                                 IF moisture > 30 THEN moisture ELSE 30)

\* The intensity has been calculated for inputs below both floors, and the
\* result is the value at the floors.
C10_Witness ==
    /\ afterCriticalIntensity
    /\ crownInputs.foliarMoisture = 20
    /\ crownInputs.canopyBaseHeight = 10
    /\ crown[lastCall.arg].crownCriticalSurfaceFireIntensity = 392

----------------------------------------------------------------------------
(* SpecPipeline: one Crown engine, its calculation and its ratio           *)
(* calculators, over a grid of surface and crown inputs                    *)

\* The arguments of updateSurfaceInputs over the wind height modes and the
\* canopy heights: no canopy, one lower than the highest canopy base and one
\* above it.
PipelineSurfaceArgs ==
    { [ DefaultArgs EXCEPT !.windHeightInputMode = mode, !.windSpeed = windSpeed, !.canopyHeight = canopyHeight ] :
        mode \in WindHeightInputModes, windSpeed \in { 0, MaxWindSpeed }, canopyHeight \in { 0, MaxCanopyBaseHeight \div 2, MaxCanopyHeight } }

PipelineCrownInputs ==
    [ canopyBaseHeight : { 0, MaxCanopyBaseHeight },
      canopyBulkDensity : { 0, MaxCanopyBulkDensity },
      foliarMoisture : { MaxFoliarMoisture } ]

PipelineEngines == { e \in Engines : \A d \in Engines : e <= d }

InitPipeline ==
    /\ surfaceInputs \in { initializeMembers } \cup { updateSurfaceInputs(initializeMembers, a, 0) : a \in PipelineSurfaceArgs }
    /\ surfaceFire = surfaceFireInitializeMembers
    /\ crownInputs \in { crownInputsInitializeMembers } \cup PipelineCrownInputs
    /\ crown = [ e \in Engines |-> crownNotConstructed ]
    /\ undefinedBehaviour = FALSE
    /\ lastCall = [ op |-> "none", arg |-> 0 ]

\* Crown::calculateCrownFireTransitionRatio: the ratio is returned, no
\* member is assigned.
CalculateCrownFireTransitionRatio(e) ==
    /\ crown[e].constructed
    /\ crown' = [ crown EXCEPT ![e] = read(crown[e], { "crownCriticalSurfaceFireIntensity", "crownCopyOfSurfaceFirelineIntensity" }) ]
    /\ lastCall' = [ op |-> "calculateCrownFireTransitionRatio", arg |-> e, result |-> calculateCrownFireTransitionRatio(crown[e]) ]
    /\ UNCHANGED << surfaceInputs, surfaceFire, crownInputs, undefinedBehaviour >>

\* Crown::calculateCrownFireActiveRatio
CalculateCrownFireActiveRatio(e) ==
    /\ crown[e].constructed
    /\ crown' = [ crown EXCEPT ![e] = calculateCrownFireActiveRatio(crown[e]) ]
    /\ lastCall' = [ op |-> "calculateCrownFireActiveRatio", arg |-> e ]
    /\ UNCHANGED << surfaceInputs, surfaceFire, crownInputs, undefinedBehaviour >>

\* Crown::calcualteCrownFirePowerRatio
CalcualteCrownFirePowerRatio(e) ==
    /\ crown[e].constructed
    /\ crown' = [ crown EXCEPT ![e] = calcualteCrownFirePowerRatio(crown[e]) ]
    /\ lastCall' = [ op |-> "calcualteCrownFirePowerRatio", arg |-> e ]
    /\ UNCHANGED << surfaceInputs, surfaceFire, crownInputs, undefinedBehaviour >>

NextPipeline ==
    \/ \E g \in GarbageValues : DoSurfaceRunInDirectionOfMaxSpread(g)
    \/ \E e \in PipelineEngines, g \in GarbageValues : ConstructCrown(e, g)
    \/ \E e \in PipelineEngines : CalculateCrownFireSpreadRate(e)
    \/ \E e \in PipelineEngines : CalculateCrownFireTransitionRatio(e)
    \/ \E e \in PipelineEngines : CalculateCrownFireActiveRatio(e)
    \/ \E e \in PipelineEngines : CalcualteCrownFirePowerRatio(e)

SpecPipeline == InitPipeline /\ [][NextPipeline]_vars

----------------------------------------------------------------------------
(* Claims on the ratio calculators                                         *)

\* C11: calculateCrownFireTransitionRatio returns 0 when the stored critical
\* surface fire intensity is below the threshold, and otherwise the stored
\* surface fireline intensity divided by it (here: the floor of the quotient
\* in hundredths), so it never divides by a value below the threshold.
C11_TransitionRatioGuarded ==
    lastCall.op = "calculateCrownFireTransitionRatio" =>
        LET c == crown[lastCall.arg]
            critical == c.crownCriticalSurfaceFireIntensity
            surface == c.crownCopyOfSurfaceFirelineIntensity
        IN  IF critical < 1
            THEN lastCall.result = 0
            ELSE /\ lastCall.result * critical <= surface * 100000
                 /\ surface * 100000 < (lastCall.result + 1) * critical

\* C11 witness: the ratio of a calculated engine whose surface fire burns,
\* a positive quotient.
C11_Witness ==
    /\ lastCall.op = "calculateCrownFireTransitionRatio"
    /\ "crownCriticalSurfaceFireIntensity" \in crown[lastCall.arg].assigned
    /\ crown[lastCall.arg].crownCopyOfSurfaceFirelineIntensity > 0
    /\ lastCall.result > 0

\* C12: when the canopy bulk density converted to kg/m3 is below the
\* threshold, the critical crown spread rate is 0 and so is the active ratio;
\* otherwise the critical rate is 3 / density in m/min converted to ft/min
\* (in hundredths of ft/min, rate x density in thousandths of lb/ft3 is
\* 100 x 3.28084 x 3000 / 16.0185 = 61444.7, less the rounding of the two
\* divisions) and the active ratio is the crown spread rate over it (the
\* floor of the quotient in thousandths).
C12_CriticalSpreadRateGuarded ==
    \A e \in Engines :
        "crownCriticalFireSpreadRate" \in crown[e].assigned =>
            LET density == crownInputs.canopyBulkDensity
                critical == crown[e].crownCriticalFireSpreadRate
                active == crown[e].crownFireActiveRatio
                hasRatio == "crownFireActiveRatio" \in crown[e].assigned
            IN  IF density < 1
                THEN critical = 0 /\ (hasRatio => active = 0)
                ELSE /\ critical * density <= 61445
                     /\ critical * density >= 61444 - 8 * density
                     /\ hasRatio =>
                            /\ active * critical <= crown[e].crownFireSpreadRate * 1000
                            /\ crown[e].crownFireSpreadRate * 1000 < (active + 1) * critical

\* C12 witness: an engine calculated with a bulk density of 0, whose crown
\* fire spreads, after its active ratio was calculated.
C12_Witness ==
    \E e \in Engines :
        /\ crownInputs.canopyBulkDensity = 0
        /\ { "crownCriticalFireSpreadRate", "crownFireActiveRatio" } \subseteq crown[e].assigned
        /\ crown[e].crownFireSpreadRate > 0
        /\ crown[e].crownFireActiveRatio = 0

\* C13: the power of the wind is 0.00106 x max(0, (20-ft wind speed in
\* ft/min - crown spread rate) / 60)^3, so it is never negative, and the
\* power ratio is the power of the fire over the power of the wind when the
\* latter exceeds the threshold, and 0 otherwise.  (The difference is in
\* tenths of ft/s, the power of the wind in units of 1e-8, the power of the
\* fire in hundredths; the quotient is checked by multiplication.)
C13_PowerOfWindClamped ==
    \A e \in Engines :
        LET c == crown[e]
            difference == (880 * c.windSpeedAtTwentyFeet - c.crownFireSpreadRate) \div 600
            clamped == IF difference > 0 THEN difference ELSE 0
            divisor == c.crownPowerOfWind \div 100
        IN  /\ "crownPowerOfWind" \in c.assigned =>
                /\ c.crownPowerOfWind >= 0
                /\ c.crownPowerOfWind = 106 * clamped * clamped * clamped
            /\ "crownFirePowerRatio" \in c.assigned =>
                IF c.crownPowerOfWind > 10
                THEN /\ c.crownFirePowerRatio * divisor <= c.crownPowerOfFire * 10000
                     /\ c.crownPowerOfFire * 10000 < (c.crownFirePowerRatio + 1) * divisor
                ELSE c.crownFirePowerRatio = 0

\* C13 witness: a calculated engine whose wind outruns the crown fire, with
\* a positive power of the wind and a positive power ratio.
C13_Witness ==
    \E e \in Engines :
        /\ { "crownPowerOfWind", "crownFirePowerRatio" } \subseteq crown[e].assigned
        /\ crown[e].crownPowerOfWind > 10
        /\ crown[e].crownFirePowerRatio > 0

\* C14: the 20-ft wind speed a calculation stores is the input wind speed
\* when the wind height mode is twenty-foot, the input wind speed divided by
\* 1.15 when it is ten-metre, and -1 (here -10 tenths) in every other mode,
\* the direct-midflame mode that initializeMembers selects included.
C14_WindSpeedAtTwentyFeetByMode ==
    \A e \in Engines :
        "windSpeedAtTwentyFeet" \in crown[e].assigned =>
            LET stored == crown[e].windSpeedAtTwentyFeet
                mode == surfaceInputs.windHeightInputMode
            IN  /\ mode = "TwentyFoot" => stored = surfaceInputs.windSpeed
                /\ mode = "TenMeter" =>
                       /\ stored * 115 <= surfaceInputs.windSpeed * 100
                       /\ surfaceInputs.windSpeed * 100 < (stored + 1) * 115
                /\ mode \notin { "TwentyFoot", "TenMeter" } => stored = -10

\* C14 witness: a calculation in the direct-midflame mode with a wind
\* blowing, which stores -1.
C14_Witness ==
    \E e \in Engines :
        /\ "windSpeedAtTwentyFeet" \in crown[e].assigned
        /\ surfaceInputs.windHeightInputMode = "DirectMidflame"
        /\ surfaceInputs.windSpeed > 0
        /\ crown[e].windSpeedAtTwentyFeet = -10

\* C15: right after calculateCrownFireSpreadRate the crown fireline
\* intensity is (crown spread rate / 60) x (surface heat per unit area +
\* 8000 x canopy bulk density x (canopy height - canopy base height)), where
\* the surface heat per unit area is the one the Surface holds at the call.
C15_CrownIntensityFromSurfaceAndCanopy ==
    lastCall.op = "calculateCrownFireSpreadRate" =>
        LET c == crown[lastCall.arg]
            canopy == (8000 * crownInputs.canopyBulkDensity * (surfaceInputs.canopyHeight - crownInputs.canopyBaseHeight)) \div 100000
        IN  c.crownFirelineIntensity = (c.crownFireSpreadRate * (surfaceFire.heatPerUnitArea + canopy)) \div 6000

\* C15 witness: a calculation after a surface run that released heat, over
\* a canopy that carries fuel.
C15_Witness ==
    /\ lastCall.op = "calculateCrownFireSpreadRate"
    /\ surfaceFire.heatPerUnitArea > 0
    /\ crownInputs.canopyBulkDensity > 0
    /\ surfaceInputs.canopyHeight > crownInputs.canopyBaseHeight
    /\ crown[lastCall.arg].crownFireSpreadRate > 0
    /\ crown[lastCall.arg].crownFirelineIntensity > 0

\* C16: the crown fuel load a calculation stores is never negative, so the
\* crown fire heat per unit area is at least the surface one it copied and
\* the crown flame length is never taken of a negative intensity.
C16_CrownFuelLoadNonNegative ==
    \A e \in Engines :
        "crownFuelLoad" \in crown[e].assigned =>
            /\ crown[e].crownFuelLoad >= 0
            /\ crown[e].crownFireHeatPerUnitArea >= crown[e].crownCopyOfSurfaceHeatPerUnitArea
            /\ crown[e].crownFirelineIntensity >= 0
            /\ crown[e].crownFlameLength # NotANumber

\* C20: in a crown calculation, that is calculateCrownFireSpreadRate and the
\* ratio calculators called after it, no step reads a crown state field
\* that no earlier step of the calculation assigned.
C20_StepsReadAssignedFields ==
    \A e \in Engines :
        "crownFireSpreadRate" \in crown[e].assigned => crown[e].readUnassigned = {}

\* C20 witness: a calculation followed by the three ratio calculators, the
\* transition ratio last.
C20_Witness ==
    /\ lastCall.op = "calculateCrownFireTransitionRatio"
    /\ { "crownFireSpreadRate", "crownPowerOfWind", "crownFireActiveRatio", "crownFirePowerRatio" } \subseteq crown[lastCall.arg].assigned
    /\ crown[lastCall.arg].readUnassigned = {}

----------------------------------------------------------------------------
(* SpecFlameLength: Surface::calculateFlameLength over a grid of fireline  *)
(* intensities                                                             *)

\* Fireline intensities in units of 1e-8 Btu/ft/s, so that the threshold
\* 1.0e-07 is 10: a negative one, zero, values on both sides of the
\* threshold and one per two decades above it.
FirelineIntensityArgs ==
    { -100, 0, 5, 9, 10, 11, 100, 10000, 1000000, 100000000, 1000000000 }

\* pow(x, 0.46) of <cmath> for x in units of 1e-8, in millionths, rounded
\* down; NaN for a negative x.
powerZeroPointFortySix(x) ==
    CASE x < 0 -> NotANumber
      [] x = 0 -> 0
      [] x = 5 -> 438
      [] x = 9 -> 574
      [] x = 10 -> 602
      [] x = 11 -> 629
      [] x = 100 -> 1737
      [] x = 10000 -> 14454
      [] x = 1000000 -> 120226
      [] x = 100000000 -> 1000000
      [] x = 1000000000 -> 2884031

\* A variant of calculateFlameLength without the threshold.
calculateFlameLengthUnguarded(firelineIntensity) ==
    (45 * powerZeroPointFortySix(firelineIntensity)) \div 100

\* Surface::calculateFlameLength with intensity and flame length in base
\* units (Btu/ft/s and feet): the flame length in millionths of a foot.
calculateFlameLength(firelineIntensity) ==
    IF firelineIntensity < 10
    THEN 0
    ELSE (45 * powerZeroPointFortySix(firelineIntensity)) \div 100

\* A call of calculateFlameLength; the call before it is kept for
\* comparison (the first call is compared with itself).
CalculateFlameLength(firelineIntensity) ==
    /\ lastCall' = [ op |-> "calculateFlameLength",
                     arg |-> firelineIntensity,
                     result |-> calculateFlameLength(firelineIntensity),
                     previous |-> IF lastCall.op = "calculateFlameLength"
                                  THEN [ arg |-> lastCall.arg, result |-> lastCall.result ]
                                  ELSE [ arg |-> firelineIntensity, result |-> calculateFlameLength(firelineIntensity) ] ]
    /\ UNCHANGED << surfaceInputs, surfaceFire, crownInputs, crown, undefinedBehaviour >>

NextFlameLength ==
    \E firelineIntensity \in FirelineIntensityArgs : CalculateFlameLength(firelineIntensity)

SpecFlameLength == Init /\ [][NextFlameLength]_vars

\* C17: calculateFlameLength returns 0 exactly when the fireline intensity
\* is below the threshold 1e-7 and 0.45 x intensity^0.46 otherwise, and of
\* two calls the one with the larger intensity does not return the smaller
\* flame length, on whichever sides of the threshold the two are.
C17_FlameLengthMonotone ==
    lastCall.op = "calculateFlameLength" =>
        /\ lastCall.result = 0 <=> lastCall.arg < 10
        /\ lastCall.arg >= 10 => lastCall.result = (45 * powerZeroPointFortySix(lastCall.arg)) \div 100
        /\ lastCall.previous.arg <= lastCall.arg => lastCall.previous.result <= lastCall.result

\* C17 witness: a call just below the threshold followed by a call at the
\* threshold, the first returning 0 and the second a positive flame length.
C17_Witness ==
    /\ lastCall.op = "calculateFlameLength"
    /\ lastCall.previous.arg = 9
    /\ lastCall.previous.result = 0
    /\ lastCall.arg = 10
    /\ lastCall.result > 0

----------------------------------------------------------------------------
(* Claims on the two-fuel-models method and on units                       *)

\* C18: a surface run made while the two-fuel-models method is NoMethod
\* takes the single-fuel branch, that is, it does not leave surfaceFire_ in
\* the state of the two-fuel-models combiner, also when two-fuel-models mode
\* was selected through updateSurfaceInputsForTwoFuelModels with NoMethod.
C18_NoMethodRunsSingleFuel ==
    (afterSurfaceRun /\ surfaceInputs.twoFuelModelsMethod = "NoMethod") =>
        surfaceFire.lastCalculation \in { "calculateForwardSpreadRate", "skipCalculationForZeroLoad" }

\* LengthUnits (outside src/): feet are the base unit, an inch is a twelfth
\* of a foot.  Lengths are in hundredths of their unit.
LengthUnitsEnum == { "Feet", "Inches" }

lengthToBaseUnits(value, units) ==
    IF units = "Inches" THEN value \div 12 ELSE value

lengthFromBaseUnits(value, units) ==
    IF units = "Inches" THEN value * 12 ELSE value

\* SurfaceInputs::setCanopyHeight(canopyHeight, canopyHeightUnits)
setCanopyHeightInUnits(si, canopyHeight, canopyHeightUnits) ==
    setCanopyHeight(si, lengthToBaseUnits(canopyHeight, canopyHeightUnits))

\* SurfaceInputs::getCanopyHeight(canopyHeightUnits): the argument is not
\* used.
getCanopyHeightInUnits(si, canopyHeightUnits) == si.canopyHeight

\* Canopy heights that are whole in feet and in inches.
CanopyHeightArgs == { h \in 0 .. MaxCanopyHeight : h % 120 = 0 }

SetCanopyHeightInUnits(canopyHeight, canopyHeightUnits) ==
    /\ lastCall' = [ op |-> "setCanopyHeight", arg |-> canopyHeight, units |-> canopyHeightUnits ]
    /\ inputsBecome(setCanopyHeightInUnits(surfaceInputs, canopyHeight, canopyHeightUnits), FALSE)

\* A call of getCanopyHeight: what it returns is kept with the arguments of
\* the setCanopyHeight before it (0 feet when there was none).
GetCanopyHeightInUnits(canopyHeightUnits) ==
    /\ lastCall' = [ op |-> "getCanopyHeight",
                     arg |-> canopyHeightUnits,
                     result |-> getCanopyHeightInUnits(surfaceInputs, canopyHeightUnits),
                     given |-> CASE lastCall.op = "setCanopyHeight" -> [ value |-> lastCall.arg, units |-> lastCall.units ]
                                 [] lastCall.op = "getCanopyHeight" -> lastCall.given
                                 [] OTHER -> [ value |-> 0, units |-> "Feet" ] ]
    /\ UNCHANGED << surfaceInputs, surfaceFire, crownInputs, crown, undefinedBehaviour >>

NextUnits ==
    \/ \E canopyHeight \in CanopyHeightArgs, canopyHeightUnits \in LengthUnitsEnum : SetCanopyHeightInUnits(canopyHeight, canopyHeightUnits)
    \/ \E canopyHeightUnits \in LengthUnitsEnum : GetCanopyHeightInUnits(canopyHeightUnits)

SpecUnits == Init /\ [][NextUnits]_vars

\* C19: a getter with a unit argument returns the stored base-unit value
\* converted to that unit, so that getCanopyHeight in the unit of the
\* setCanopyHeight before it returns the value that was set.
C19_GetterConvertsToRequestedUnit ==
    lastCall.op = "getCanopyHeight" =>
        /\ lastCall.result = lengthFromBaseUnits(surfaceInputs.canopyHeight, lastCall.arg)
        /\ lastCall.given.units = lastCall.arg => lastCall.result = lastCall.given.value

----------------------------------------------------------------------------
(* Claims on what a crown calculation changes                              *)

\* C21: calculateCrownFireSpreadRate leaves the shared SurfaceInputs and the
\* Surface as they were when it was called; what it overrides is the
\* engine's own copy of the inputs, with fuel model 10, slope 0, wind
\* direction 0 and 0.4 x the 20-ft wind speed.
C21_CalculationOverridesOnlyTheCopy ==
    lastCall.op = "calculateCrownFireSpreadRate" =>
        LET c == crown[lastCall.arg]
            copy == c.crownDeepCopyOfSurfaceInputs
        IN  /\ surfaceInputs = c.calledWith.surfaceInputs
            /\ surfaceFire = c.calledWith.surfaceFire
            /\ copy.fuelModelNumber = 10
            /\ copy.slope = 0
            /\ copy.windDirection = 0
            /\ copy.windSpeed = (4 * c.windSpeedAtTwentyFeet) \div 10

\* C21 witness: a calculation over shared inputs with fuel model 1 and a
\* 20-ft wind, after which the shared inputs still hold both while the copy
\* holds fuel model 10 and the scaled wind speed.
C21_Witness ==
    /\ lastCall.op = "calculateCrownFireSpreadRate"
    /\ surfaceInputs.fuelModelNumber = 1
    /\ surfaceInputs.windHeightInputMode = "TwentyFoot"
    /\ surfaceInputs.windSpeed > 0
    /\ crown[lastCall.arg].crownDeepCopyOfSurfaceInputs.fuelModelNumber = 10
    /\ crown[lastCall.arg].crownDeepCopyOfSurfaceInputs.windSpeed < surfaceInputs.windSpeed

----------------------------------------------------------------------------
(* SpecScorchHeight: Surface::calculateScorchHeight over a grid of         *)
(* intensities, midflame wind speeds and air temperatures                  *)

\* Fireline intensities in Btu/ft/s: a negative one, zero (the values below
\* 1.0e-07 of this scale) and sixth powers, whose pow(x, 1.166667) is whole.
ScorchIntensityArgs == { -1, 0, 1, 64, 729, 4096 }

\* Midflame wind speeds in mi/h.
ScorchWindSpeedArgs == { -5, 0, 5 }

\* Air temperatures in degrees F, on both sides of 140 and at it.
AirTemperatureArgs == { 0, 70, 139, 140, 141, 200 }

\* pow(x, 1.166667) for x >= 1: x times the cube root of the square root.
powerOneAndASixth(x) == x * integerCubeRoot(integerSquareRoot(x))

\* Surface::calculateScorchHeight with every argument in the unit the
\* formula uses: the scorch height in hundredths of a foot, and whether it
\* is finite.  A division by zero gives an infinity and the square root of a
\* negative number a NaN; both are returned as not finite.
calculateScorchHeight(firelineIntensity, midFlameWindSpeedInMilesPerHour, airTemperature) ==
    LET radicand == firelineIntensity + midFlameWindSpeedInMilesPerHour * midFlameWindSpeedInMilesPerHour * midFlameWindSpeedInMilesPerHour
        root == IF radicand < 0 THEN NotANumber ELSE integerSquareRoot(radicand)
    IN  IF firelineIntensity < 1
        THEN [ finite |-> TRUE, value |-> 0 ]
        ELSE IF 140 - airTemperature = 0 \/ radicand <= 0
             THEN [ finite |-> FALSE, value |-> 0 ]
             ELSE [ finite |-> TRUE, value |-> (6300 * powerOneAndASixth(firelineIntensity)) \div ((140 - airTemperature) * root) ]

CalculateScorchHeight(firelineIntensity, midFlameWindSpeed, airTemperature) ==
    /\ lastCall' = [ op |-> "calculateScorchHeight",
                     arg |-> [ firelineIntensity |-> firelineIntensity, midFlameWindSpeed |-> midFlameWindSpeed, airTemperature |-> airTemperature ],
                     result |-> calculateScorchHeight(firelineIntensity, midFlameWindSpeed, airTemperature) ]
    /\ UNCHANGED << surfaceInputs, surfaceFire, crownInputs, crown, undefinedBehaviour >>

NextScorchHeight ==
    \E firelineIntensity \in ScorchIntensityArgs, midFlameWindSpeed \in ScorchWindSpeedArgs, airTemperature \in AirTemperatureArgs :
        CalculateScorchHeight(firelineIntensity, midFlameWindSpeed, airTemperature)

SpecScorchHeight == Init /\ [][NextScorchHeight]_vars

\* C22: calculateScorchHeight returns 0 when the fireline intensity is
\* below the threshold, and for every other input, an air temperature of
\* 140 degrees F included, it divides by no zero and returns a finite value.
C22_ScorchHeightFinite ==
    lastCall.op = "calculateScorchHeight" =>
        /\ lastCall.arg.firelineIntensity < 1 => lastCall.result = [ finite |-> TRUE, value |-> 0 ]
        /\ lastCall.result.finite

----------------------------------------------------------------------------
(* Claims on the wind speed and the fuel flags of a run                    *)

\* C23: when the shared inputs hold a non-negative wind speed, the wind
\* speed calculateCrownFireSpreadRate stores in the copy it runs fuel model
\* 10 on is non-negative, in every wind height input mode.
C23_MidflameWindSpeedNonNegative ==
    (lastCall.op = "calculateCrownFireSpreadRate" /\ surfaceInputs.windSpeed >= 0) =>
        crown[lastCall.arg].crownDeepCopyOfSurfaceInputs.windSpeed >= 0

\* C24: right after updateSurfaceInputsForPalmettoGallbery the
\* palmetto-gallberry flag is true, right after
\* updateSurfaceInputsForWesternAspen the western-aspen flag is, and a run in
\* the direction of max spread on these inputs does not take the zero-load
\* skip for the fuel model number 0 the update stored.
C24_SpecialUpdateRaisesItsFlag ==
    /\ lastCall.op = "updateSurfaceInputsForPalmettoGallbery" =>
           /\ surfaceInputs.isUsingPalmettoGallberry
           /\ doSurfaceRunInDirectionOfMaxSpread(surfaceInputs).lastCalculation # "skipCalculationForZeroLoad"
    /\ lastCall.op = "updateSurfaceInputsForWesternAspen" =>
           /\ surfaceInputs.isUsingWesternAspen
           /\ doSurfaceRunInDirectionOfMaxSpread(surfaceInputs).lastCalculation # "skipCalculationForZeroLoad"

----------------------------------------------------------------------------
(* SpecSurfaceCopy: a second Surface made from the first by copy           *)
(* construction or copy assignment                                         *)

\* What the member fuelModels_ of a Surface may hold: the address of the
\* catalog the first Surface was constructed with, the address of another
\* catalog, or an indeterminate value that is the address of no catalog.
FuelModelsPointers == { "fuelModels", "otherFuelModels", "indeterminate" }

\* Surface::memberwiseCopyAssignment: the inputs, the spread engine and the
\* size module are assigned; fuelModels_ is not, and keeps the value
\* ownFuelModels it had.
surfaceMemberwiseCopyAssignment(ownFuelModels, rhsSurfaceInputs, rhsSurfaceFire) ==
    [ surfaceInputs |-> memberwiseCopyAssignment(initializeMembers, rhsSurfaceInputs),
      surfaceFire |-> rhsSurfaceFire,
      fuelModels |-> ownFuelModels ]

\* Surface::isAllFuelLoadZero and fuelModels_->isFuelModelDefined on the
\* Surface s: the answers of the first catalog when fuelModels_ points to
\* it, and otherwise whatever the other catalog, or the memory read through
\* the indeterminate pointer, holds (zero and defined).
isAllFuelLoadZeroThrough(s, fuelModelNumber, zero) ==
    IF s.fuelModels = "fuelModels" THEN isAllFuelLoadZero(fuelModelNumber) ELSE zero

isFuelModelDefinedThrough(s, fuelModelNumber, defined) ==
    IF s.fuelModels = "fuelModels" THEN isFuelModelDefined(fuelModelNumber) ELSE defined

\* Surface::doSurfaceRunInDirectionOfMaxSpread on the Surface s: the
\* Surface it leaves.
doSurfaceRunInDirectionOfMaxSpreadOn(s, zero, defined, garbage) ==
    LET si == updateMoisturesBasedOnInputMode(s.surfaceInputs, garbage)
        fuelModelNumber == getFuelModelNumber(si)
        skips == /\ ~ isUsingSpecialFuel(si)
                 /\ \/ isAllFuelLoadZeroThrough(s, fuelModelNumber, zero)
                    \/ ~ isFuelModelDefinedThrough(s, fuelModelNumber, defined)
    IN  [ s EXCEPT !.surfaceInputs = si,
                   !.surfaceFire = IF si.isUsingTwoFuelModels
                                   THEN calculateWeightedSpreadRate(si, si.twoFuelModelsMethod, si.fuelModelNumber, si.firstFuelModelCoverage, si.secondFuelModelNumber)
                                   ELSE IF skips THEN skipCalculationForZeroLoad ELSE calculateForwardSpreadRate(si, fuelModelNumber) ]

\* Surface::Surface(const Surface&): fuelModels_ is not initialized, its
\* value is indeterminate.
CopyConstructSurface(indeterminate) ==
    /\ lastCall' = [ op |-> "Surface(const Surface&)", arg |-> 0, result |-> surfaceMemberwiseCopyAssignment(indeterminate, surfaceInputs, surfaceFire) ]
    /\ UNCHANGED << surfaceInputs, surfaceFire, crownInputs, crown, undefinedBehaviour >>

\* Surface::operator= on a Surface that was constructed with the catalog
\* ownFuelModels.
CopyAssignSurface(ownFuelModels) ==
    /\ lastCall' = [ op |-> "Surface::operator=", arg |-> 0, result |-> surfaceMemberwiseCopyAssignment(ownFuelModels, surfaceInputs, surfaceFire) ]
    /\ UNCHANGED << surfaceInputs, surfaceFire, crownInputs, crown, undefinedBehaviour >>

\* The copy is the result of the last call.
hasCopy ==
    lastCall.op \in { "Surface(const Surface&)", "Surface::operator=", "copy.doSurfaceRunInDirectionOfMaxSpread" }

\* doSurfaceRunInDirectionOfMaxSpread on the copy; a read through the
\* indeterminate pointer is undefined behaviour.
DoSurfaceRunInDirectionOfMaxSpreadOnCopy(zero, defined, garbage) ==
    /\ hasCopy
    /\ lastCall' = [ op |-> "copy.doSurfaceRunInDirectionOfMaxSpread", arg |-> 0, result |-> doSurfaceRunInDirectionOfMaxSpreadOn(lastCall.result, zero, defined, garbage) ]
    /\ undefinedBehaviour' = (undefinedBehaviour \/ (lastCall.result.fuelModels = "indeterminate" /\ ~ lastCall.result.surfaceInputs.isUsingTwoFuelModels))
    /\ UNCHANGED << surfaceInputs, surfaceFire, crownInputs, crown >>

NextSurfaceCopy ==
    \/ \E n \in FuelModelNumbers : SetFuelModelNumber(n)
    \/ \E b \in BOOLEAN : SetIsUsingChaparral(b)
    \/ \E g \in GarbageValues : DoSurfaceRunInDirectionOfMaxSpread(g)
    \/ \E indeterminate \in FuelModelsPointers : CopyConstructSurface(indeterminate)
    \/ \E ownFuelModels \in FuelModelsPointers \ { "indeterminate" } : CopyAssignSurface(ownFuelModels)
    \/ \E zero \in BOOLEAN, defined \in BOOLEAN, g \in GarbageValues : DoSurfaceRunInDirectionOfMaxSpreadOnCopy(zero, defined, g)

SpecSurfaceCopy == Init /\ [][NextSurfaceCopy]_vars

\* C25: a Surface made by copy construction or copy assignment refers to
\* the fuel catalog of its source, and a run on it takes the branch
\* (skip, calculate) a run on the source takes, without undefined behaviour.
C25_CopySharesTheCatalog ==
    hasCopy =>
        /\ lastCall.result.fuelModels = "fuelModels"
        /\ ~ undefinedBehaviour
        /\ lastCall.op = "copy.doSurfaceRunInDirectionOfMaxSpread" =>
               lastCall.result.surfaceFire.lastCalculation = doSurfaceRunInDirectionOfMaxSpread(surfaceInputs).lastCalculation

----------------------------------------------------------------------------
(* SpecInputsCopy: SurfaceInputs with its chaparral members, and a second  *)
(* SurfaceInputs assigned from it                                          *)

\* The chaparral members of SurfaceInputs, which initializeMembers does not
\* assign.
ChaparralMembers ==
    { "chaparralFuelType", "chaparralFuelBedDepth", "chaparralFuelDeadLoadFraction", "chaparralTotalFuelLoad" }

\* SurfaceInputs::SurfaceInputs: initializeMembers on an object whose other
\* members are indeterminate.
SurfaceInputsConstructed(garbage) ==
    initializeMembers @@ [ m \in ChaparralMembers |-> garbage ]

setChaparralFuelType(si, chaparralFuelType) == [ si EXCEPT !.chaparralFuelType = chaparralFuelType ]

setChaparralFuelBedDepth(si, chaparralFuelBedDepth) == [ si EXCEPT !.chaparralFuelBedDepth = chaparralFuelBedDepth ]

setChaparralFuelDeadLoadFraction(si, chaparralFuelDeadLoadFraction) == [ si EXCEPT !.chaparralFuelDeadLoadFraction = chaparralFuelDeadLoadFraction ]

setChaparralTotalFuelLoad(si, chaparralTotalFuelLoad) == [ si EXCEPT !.chaparralTotalFuelLoad = chaparralTotalFuelLoad ]

\* The values the chaparral setters are called with.
ChaparralArgs == { 1, 2 }

InitInputsCopy ==
    /\ surfaceInputs \in { SurfaceInputsConstructed(g) : g \in GarbageValues }
    /\ surfaceFire = surfaceFireInitializeMembers
    /\ crownInputs = crownInputsInitializeMembers
    /\ crown = [ e \in Engines |-> crownNotConstructed ]
    /\ undefinedBehaviour = FALSE
    /\ lastCall = [ op |-> "none", arg |-> 0 ]

SetChaparralFuelType(chaparralFuelType) ==
    /\ lastCall' = [ op |-> "setChaparralFuelType", arg |-> chaparralFuelType ]
    /\ inputsBecome(setChaparralFuelType(surfaceInputs, chaparralFuelType), FALSE)

SetChaparralFuelBedDepth(chaparralFuelBedDepth) ==
    /\ lastCall' = [ op |-> "setChaparralFuelBedDepth", arg |-> chaparralFuelBedDepth ]
    /\ inputsBecome(setChaparralFuelBedDepth(surfaceInputs, chaparralFuelBedDepth), FALSE)

SetChaparralFuelDeadLoadFraction(chaparralFuelDeadLoadFraction) ==
    /\ lastCall' = [ op |-> "setChaparralFuelDeadLoadFraction", arg |-> chaparralFuelDeadLoadFraction ]
    /\ inputsBecome(setChaparralFuelDeadLoadFraction(surfaceInputs, chaparralFuelDeadLoadFraction), FALSE)

SetChaparralTotalFuelLoad(chaparralTotalFuelLoad) ==
    /\ lastCall' = [ op |-> "setChaparralTotalFuelLoad", arg |-> chaparralTotalFuelLoad ]
    /\ inputsBecome(setChaparralTotalFuelLoad(surfaceInputs, chaparralTotalFuelLoad), FALSE)

\* a = b, where b is the shared SurfaceInputs and a a SurfaceInputs that
\* was default-constructed; a is the result of the call.
AssignSurfaceInputs(garbage) ==
    /\ lastCall' = [ op |-> "SurfaceInputs::operator=", arg |-> 0, result |-> memberwiseCopyAssignment(SurfaceInputsConstructed(garbage), surfaceInputs) ]
    /\ UNCHANGED << surfaceInputs, surfaceFire, crownInputs, crown, undefinedBehaviour >>

NextInputsCopy ==
    \/ \E n \in FuelModelNumbers : SetFuelModelNumber(n)
    \/ \E b \in BOOLEAN : SetIsUsingChaparral(b)
    \/ \E chaparralFuelType \in ChaparralArgs : SetChaparralFuelType(chaparralFuelType)
    \/ \E chaparralFuelBedDepth \in ChaparralArgs : SetChaparralFuelBedDepth(chaparralFuelBedDepth)
    \/ \E chaparralFuelDeadLoadFraction \in ChaparralArgs : SetChaparralFuelDeadLoadFraction(chaparralFuelDeadLoadFraction)
    \/ \E chaparralTotalFuelLoad \in ChaparralArgs : SetChaparralTotalFuelLoad(chaparralTotalFuelLoad)
    \/ \E g \in GarbageValues : AssignSurfaceInputs(g)

SpecInputsCopy == InitInputsCopy /\ [][NextInputsCopy]_vars

\* C26: after the copy assignment a = b every member a getter returns,
\* the four chaparral inputs included, has in a the value it has in b.
C26_AssignmentCopiesEveryMember ==
    lastCall.op = "SurfaceInputs::operator=" =>
        \A m \in DOMAIN surfaceInputs : lastCall.result[m] = surfaceInputs[m]

----------------------------------------------------------------------------
(* SpecScenario: the moisture scenario collection, the selection of a      *)
(* scenario and the moisture input mode                                    *)

\* Surface::setMoistureScenarios: the collection is attached.
setMoistureScenarios(si) == [ si EXCEPT !.moistureScenarios = "moistureScenarios" ]

\* What getIsMoistureScenarioDefinedByName / ByIndex return to the setters:
\* the answer of the collection, or an arbitrary one when the call goes
\* through the null pointer.
isMoistureScenarioDefinedByName(si, moistureScenarioName, garbage) ==
    IF si.moistureScenarios = "nullptr" THEN garbage > 0 ELSE getIsMoistureScenarioDefinedByName(moistureScenarioName)

isMoistureScenarioDefinedByIndex(si, moistureScenarioIndex, garbage) ==
    IF si.moistureScenarios = "nullptr" THEN garbage > 0 ELSE getIsMoistureScenarioDefinedByIndex(moistureScenarioIndex)

\* SurfaceInputs::setMoistureScenarioByName: the name is emptied; when the
\* scenario is defined, name and index are set and the moistures updated.
setMoistureScenarioByName(si, moistureScenarioName, garbage) ==
    LET emptied == [ si EXCEPT !.currentMoistureScenarioName = "" ]
        index == IF si.moistureScenarios = "nullptr" THEN garbage ELSE getMoistureScenarioIndexByName(moistureScenarioName)
    IN  IF isMoistureScenarioDefinedByName(si, moistureScenarioName, garbage)
        THEN updateMoisturesBasedOnInputMode([ emptied EXCEPT !.currentMoistureScenarioName = moistureScenarioName, !.currentMoistureScenarioIndex = index ], garbage)
        ELSE emptied

\* SurfaceInputs::setMoistureScenarioByIndex: the index is reset to -1; when
\* the scenario is defined, index and name are set and the moistures
\* updated.
setMoistureScenarioByIndex(si, moistureScenarioIndex, garbage) ==
    LET reset == [ si EXCEPT !.currentMoistureScenarioIndex = -1 ]
        name == IF si.moistureScenarios = "nullptr" THEN "" ELSE getMoistureScenarioNameByIndex(moistureScenarioIndex)
    IN  IF isMoistureScenarioDefinedByIndex(si, moistureScenarioIndex, garbage)
        THEN updateMoisturesBasedOnInputMode([ reset EXCEPT !.currentMoistureScenarioIndex = moistureScenarioIndex, !.currentMoistureScenarioName = name ], garbage)
        ELSE reset

\* The scenario names and indices the setters are called with: those of the
\* collection and one of each that it does not define.
MoistureScenarioNameArgs == { "D1L1", "D4L4", "undefined" }

MoistureScenarioIndexArgs == 0 .. Len(MoistureScenarioTable)

SetMoistureScenarios ==
    /\ lastCall' = [ op |-> "setMoistureScenarios", arg |-> 0 ]
    /\ inputsBecome(setMoistureScenarios(surfaceInputs), FALSE)

SetMoistureScenarioByName(moistureScenarioName, g) ==
    LET si == setMoistureScenarioByName(surfaceInputs, moistureScenarioName, g)
        isMoistureScenarioDefined == isMoistureScenarioDefinedByName(surfaceInputs, moistureScenarioName, g)
    IN  /\ lastCall' = [ op |-> "setMoistureScenarioByName", arg |-> moistureScenarioName, result |-> isMoistureScenarioDefined ]
        /\ surfaceInputs' = si
        /\ undefinedBehaviour' = (\/ undefinedBehaviour
                                  \/ surfaceInputs.moistureScenarios = "nullptr"
                                  \/ (isMoistureScenarioDefined /\ updateReadsUndefinedScenario(si)))
        /\ UNCHANGED << surfaceFire, crownInputs, crown >>

SetMoistureScenarioByIndex(moistureScenarioIndex, g) ==
    LET si == setMoistureScenarioByIndex(surfaceInputs, moistureScenarioIndex, g)
        isMoistureScenarioDefined == isMoistureScenarioDefinedByIndex(surfaceInputs, moistureScenarioIndex, g)
    IN  /\ lastCall' = [ op |-> "setMoistureScenarioByIndex", arg |-> moistureScenarioIndex, result |-> isMoistureScenarioDefined ]
        /\ surfaceInputs' = si
        /\ undefinedBehaviour' = (\/ undefinedBehaviour
                                  \/ surfaceInputs.moistureScenarios = "nullptr"
                                  \/ (isMoistureScenarioDefined /\ updateReadsUndefinedScenario(si)))
        /\ UNCHANGED << surfaceFire, crownInputs, crown >>

NextScenario ==
    \/ SetMoistureScenarios
    \/ \E moistureScenarioName \in MoistureScenarioNameArgs, g \in GarbageValues : SetMoistureScenarioByName(moistureScenarioName, g)
    \/ \E moistureScenarioIndex \in MoistureScenarioIndexArgs, g \in GarbageValues : SetMoistureScenarioByIndex(moistureScenarioIndex, g)
    \/ \E mode \in MoistureInputModes, g \in GarbageValues : SetMoistureInputMode(mode, g)
    \/ \E m \in MoistureArgs, g \in GarbageValues : SetMoistureOneHour(m, g)
    \/ \E g \in GarbageValues : DoSurfaceRunInDirectionOfMaxSpread(g)

SpecScenario == Init /\ [][NextScenario]_vars

\* C27: no sequence of operations reads the moisture scenario collection
\* through the null pointer or with an index it does not define.
C27_ScenarioReadsAreDefined == ~ undefinedBehaviour

\* C28: after setMoistureScenarioByName or setMoistureScenarioByIndex on an
\* attached collection, the current scenario name and index denote the same
\* defined scenario or are both unset, and a call with an undefined scenario
\* returns false.
C28_NameAndIndexInStep ==
    (/\ lastCall.op \in { "setMoistureScenarioByName", "setMoistureScenarioByIndex" }
     /\ ~ undefinedBehaviour)
        => LET name == surfaceInputs.currentMoistureScenarioName
               index == surfaceInputs.currentMoistureScenarioIndex
           IN  /\ \/ (name = "" /\ index = -1)
                  \/ (/\ getIsMoistureScenarioDefinedByIndex(index)
                      /\ getMoistureScenarioNameByIndex(index) = name)
               /\ (lastCall.op = "setMoistureScenarioByName" /\ ~ getIsMoistureScenarioDefinedByName(lastCall.arg)) => ~ lastCall.result
               /\ (lastCall.op = "setMoistureScenarioByIndex" /\ ~ getIsMoistureScenarioDefinedByIndex(lastCall.arg)) => ~ lastCall.result

\* C29: in the four non-scenario moisture input modes, after a moisture
\* setter or setMoistureInputMode the seven effective moisture values are
\* determined by the current mode and the raw value of each class (a dead
\* class takes the dead aggregate in the aggregate-dead modes, a live class
\* the live aggregate in the aggregate-live modes, an unused aggregate slot
\* is -1), and setting a value and then the mode gives the same effective
\* values as setting the mode and then the value.
C29_EffectiveMoisturesFollowModeAndRawValues ==
    LET NonScenarioModes == MoistureInputModes \ { "MoistureScenario" }
        MoistureCalls == { "setMoistureOneHour", "setMoistureTenHour", "setMoistureHundredHour",
                           "setMoistureLiveHerbaceous", "setMoistureLiveWoody",
                           "setMoistureDeadAggregate", "setMoistureLiveAggregate",
                           "setMoistureInputMode" }
        deadIsAggregate(mode) == mode \in { "AllAggregate", "DeadAggregateAndLiveSizeClass" }
        liveIsAggregate(mode) == mode \in { "AllAggregate", "LiveAggregateAndDeadSizeClass" }
        dead(si, raw) == IF deadIsAggregate(si.moistureInputMode) THEN si.moistureDeadAggregate ELSE raw
        live(si, raw) == IF liveIsAggregate(si.moistureInputMode) THEN si.moistureLiveAggregate ELSE raw
        effective(si) ==
            [ class \in MoistureClassInputs |->
                CASE class = "OneHour" -> dead(si, si.moistureOneHour)
                  [] class = "TenHour" -> dead(si, si.moistureTenHour)
                  [] class = "HundredHour" -> dead(si, si.moistureHundredHour)
                  [] class = "LiveHerbaceous" -> live(si, si.moistureLiveHerbaceous)
                  [] class = "LiveWoody" -> live(si, si.moistureLiveWoody)
                  [] class = "DeadAggregate" -> IF deadIsAggregate(si.moistureInputMode) THEN si.moistureDeadAggregate ELSE -1
                  [] class = "LiveAggregate" -> IF liveIsAggregate(si.moistureInputMode) THEN si.moistureLiveAggregate ELSE -1 ]
        sameValues(a, b) ==
            \A class \in MoistureClassInputs : a.moistureValuesBySizeClass[class] = b.moistureValuesBySizeClass[class]
    IN  (lastCall.op \in MoistureCalls /\ ~ undefinedBehaviour /\ surfaceInputs.moistureInputMode \in NonScenarioModes)
            => /\ \A class \in MoistureClassInputs :
                      surfaceInputs.moistureValuesBySizeClass[class] = effective(surfaceInputs)[class]
               /\ \A mode \in NonScenarioModes, m \in MoistureArgs, g \in GarbageValues :
                      /\ sameValues(setMoistureInputMode(setMoistureOneHour(surfaceInputs, m, g), mode, g),
                                    setMoistureOneHour(setMoistureInputMode(surfaceInputs, mode, g), m, g))
                      /\ sameValues(setMoistureInputMode(setMoistureTenHour(surfaceInputs, m, g), mode, g),
                                    setMoistureTenHour(setMoistureInputMode(surfaceInputs, mode, g), m, g))
                      /\ sameValues(setMoistureInputMode(setMoistureHundredHour(surfaceInputs, m, g), mode, g),
                                    setMoistureHundredHour(setMoistureInputMode(surfaceInputs, mode, g), m, g))
                      /\ sameValues(setMoistureInputMode(setMoistureLiveHerbaceous(surfaceInputs, m, g), mode, g),
                                    setMoistureLiveHerbaceous(setMoistureInputMode(surfaceInputs, mode, g), m, g))
                      /\ sameValues(setMoistureInputMode(setMoistureLiveWoody(surfaceInputs, m, g), mode, g),
                                    setMoistureLiveWoody(setMoistureInputMode(surfaceInputs, mode, g), m, g))
                      /\ sameValues(setMoistureInputMode(setMoistureDeadAggregate(surfaceInputs, m, g), mode, g),
                                    setMoistureDeadAggregate(setMoistureInputMode(surfaceInputs, mode, g), m, g))
                      /\ sameValues(setMoistureInputMode(setMoistureLiveAggregate(surfaceInputs, m, g), mode, g),
                                    setMoistureLiveAggregate(setMoistureInputMode(surfaceInputs, mode, g), m, g))

\* A value was set in one mode and the mode then changed to an aggregate
\* mode, where the class set takes the value of the aggregate.
C29_Witness ==
    /\ lastCall.op = "setMoistureInputMode"
    /\ ~ undefinedBehaviour
    /\ surfaceInputs.moistureInputMode = "DeadAggregateAndLiveSizeClass"
    /\ surfaceInputs.moistureOneHour = MaxMoisture
    /\ surfaceInputs.moistureDeadAggregate = 0
    /\ surfaceInputs.moistureLiveWoody = MaxMoisture
    /\ surfaceInputs.moistureValuesBySizeClass["OneHour"] = 0
    /\ surfaceInputs.moistureValuesBySizeClass["LiveWoody"] = MaxMoisture
    /\ surfaceInputs.moistureValuesBySizeClass["LiveAggregate"] = -1

----------------------------------------------------------------------------
(* SpecCriticalRatio: the critical surface fire intensity and the          *)
(* transition ratio over the grid of crown inputs of SpecCritical          *)

NextCriticalRatio ==
    \/ \E e \in Engines, g \in GarbageValues : ConstructCrown(e, g)
    \/ \E e \in Engines : CalculateCrownCriticalSurfaceFireIntensity(e)
    \/ \E e \in Engines : CalculateCrownFireTransitionRatio(e)

SpecCriticalRatio == InitCritical /\ [][NextCriticalRatio]_vars

\* C30: for every foliar moisture and canopy base height, the critical
\* surface fire intensity calculated is at least its value at the floors
\* 0.1 m and 30 percent (0.392 Btu/ft/s), hence above the threshold, and a
\* transition ratio computed after the calculation is the quotient, never
\* the 0 of the branch for a critical intensity below the threshold.
C30_CriticalIntensityAboveThreshold ==
    \A e \in Engines :
        "crownCriticalSurfaceFireIntensity" \in crown[e].assigned =>
            /\ crown[e].crownCriticalSurfaceFireIntensity >= 392
            /\ (lastCall.op = "calculateCrownFireTransitionRatio" /\ lastCall.arg = e) =>
                   /\ ~ (crown[e].crownCriticalSurfaceFireIntensity < 1)
                   /\ lastCall.result = (crown[e].crownCopyOfSurfaceFirelineIntensity * 100000) \div crown[e].crownCriticalSurfaceFireIntensity

\* The transition ratio of an engine whose critical intensity was calculated
\* for inputs below both floors.
C30_Witness ==
    /\ lastCall.op = "calculateCrownFireTransitionRatio"
    /\ "crownCriticalSurfaceFireIntensity" \in crown[lastCall.arg].assigned
    /\ crownInputs.foliarMoisture = 0
    /\ crownInputs.canopyBaseHeight = 0
    /\ crown[lastCall.arg].crownCriticalSurfaceFireIntensity = 392

====
